---- MODULE Spec2Model ----
(***************************************************************************)
(* Jasper / QuartzNet acoustic model (imgclsmob): the length-masking       *)
(* arithmetic of MaskConv1d, the stage schedule built by get_jasper from   *)
(* a version string, and the threading of (tensor, valid length) through   *)
(* the network, in the Chainer and the TensorFlow port.                    *)
(*                                                                         *)
(* Three specifications share the variables:                               *)
(*   SpecConv   one MaskConv1d call on a small tensor,                     *)
(*   SpecBuild  get_jasper over every short version string and every       *)
(*              combination of the other arguments,                        *)
(*   Spec       a factory or direct get_jasper call followed by a forward  *)
(*              call of the constructed network, block by block.           *)
(*                                                                         *)
(* Strings that the code parses are sequences of one-character strings.    *)
(* Dropout rates are kept in tenths (0.2 is 2).  Tensors of the network    *)
(* are kept by shape only; the tensor of a single MaskConv1d call is kept  *)
(* element by element in its physical layout.                              *)
(***************************************************************************)
EXTENDS Integers, Sequences, FiniteSets, TLC

VARIABLES
    port,         \* "chainer" | "tf": which port's code runs
    pc,           \* position of the running call
    \* ---- one MaskConv1d call
    conv,         \* the layer's fields (ksize, stride, pad, dilate, use_mask,
                  \* data_format) and the kind of object passed as x
    x_in,         \* the value of the tensor argument when the call was made
    x_arg,        \* the caller's array object, as the caller sees it
    x_len_arg,    \* the caller's length vector
    x_masked,     \* the tensor handed to the convolution
    y_time,       \* time dimension of the convolution's output
    y_len,        \* the returned length vector
    x_out,        \* the tensor a MaskConv1d or ChannelShuffle1d call returned
    \* ---- get_jasper
    args,         \* the arguments of the get_jasper call
    net,          \* the constructed Jasper object (its constructor arguments)
    raised,       \* the exception that ended the call, or NoError
    io,           \* calls made to the model store and the weight loader
    \* ---- Jasper forward call
    entry,        \* the (x, x_len) the caller passed
    x,            \* the tensor being threaded (shape)
    x_len,        \* the second value being threaded
    layer,        \* number of blocks of net.features already applied
    convs,        \* the MaskConv1d calls made by the block applied last
    result,       \* what the forward call returned
    trace         \* the operations of the block applied last, on numbered tensors

vars == <<port, pc, conv, x_in, x_arg, x_len_arg, x_masked, y_time, y_len, x_out,
          args, net, raised, io, entry, x, x_len, layer, convs, result, trace>>

convVars == <<conv, x_in, x_arg, x_len_arg, x_masked, y_time, y_len, x_out>>
buildVars == <<args, net, raised, io>>
fwdVars == <<entry, x, x_len, layer, convs, result, trace>>

(***************************************************************************)
(* Bounds of the model.                                                    *)
(***************************************************************************)
MaxT == 3          \* physical time dimension of an input: 1..MaxT
MaxLen == 3        \* valid lengths passed by the caller: 0..MaxLen
Batch == 2         \* batch elements
Chans == 2         \* channels of the tensor of a single MaskConv1d call
MaxK == 3          \* kernel sizes of a single MaskConv1d call: 1..MaxK
MaxS == 2          \* strides: 1..MaxS
MaxD == 2          \* dilations: 1..MaxD
MaxP == 2          \* paddings: 0..MaxP
MaxVerLen == 4     \* characters of a version string in SpecBuild
MaxNumeral == 55   \* numbers read from a version string in SpecBuild: 0..MaxNumeral
MaxBlocks == 6     \* block counts of a direct get_jasper call in Spec
MaxRepeat == 2     \* repeat counts of a direct get_jasper call in Spec
MaxShuffleChans == 6   \* channels of the tensors and blocks in SpecBlock: 1..MaxShuffleChans
MaxGroups == 3     \* group counts of a DwsConvBlock1d in SpecBlock: 1..MaxGroups
MaxBelowZero == 1  \* block counts below zero of a direct get_jasper call in Spec: down to -MaxBelowZero

Ports == {"chainer", "tf"}
Scales == {-1, 1}

NoError == [type |-> "", at |-> ""]
None == [none |-> TRUE, str |-> ""]
Str(s) == [none |-> FALSE, str |-> s]

(***************************************************************************)
(* Python's // on integers: floor division (stride is positive).           *)
(***************************************************************************)
FloorDiv(a, b) == a \div b

(***************************************************************************)
(* MaskConv1d: the length update, one definition per port.                 *)
(***************************************************************************)
\* (a variant that forgets the dilation, for comparison)
MaskConv1dLenChainer_NoDilation(L, pad0, dilate0, ksize0, stride0) ==
    FloorDiv(L + 2 * pad0 - (ksize0 - 1) - 1, stride0) + 1

MaskConv1dLenChainer(L, pad0, dilate0, ksize0, stride0) ==
    FloorDiv(L + 2 * pad0 - dilate0 * (ksize0 - 1) - 1, stride0) + 1

\* (a variant that leaves the stride out, for comparison)
MaskConv1dLenTF_NoStride(L, padding, dilation, kernel_size, strides) ==
    L + 2 * padding - dilation * (kernel_size - 1) - 1 + 1

\* (a variant that forgets the dilation, for comparison)
MaskConv1dLenTF_NoDilation(L, padding, dilation, kernel_size, strides) ==
    FloorDiv(L + 2 * padding - (kernel_size - 1) - 1, strides) + 1

MaskConv1dLenTF(L, padding, dilation, kernel_size, strides) ==
    FloorDiv(L + 2 * padding - dilation * (kernel_size - 1) - 1, strides) + 1

MaskConv1dLen(p, L, c) ==
    IF p = "chainer"
    THEN MaskConv1dLenChainer(L, c.pad, c.dilate, c.ksize, c.stride)
    ELSE MaskConv1dLenTF(L, c.pad, c.dilate, c.ksize, c.stride)

(***************************************************************************)
(* Output size of the framework's 1D convolution along the time axis       *)
(* (cover_all off): the dilated kernel spans k + (k-1)(d-1) positions.     *)
(***************************************************************************)
ConvOutSize(T, c) ==
    LET dk == c.ksize + (c.ksize - 1) * (c.dilate - 1)
    IN  FloorDiv(T + 2 * c.pad - dk, c.stride) + 1

(***************************************************************************)
(* MaskConv1d: the mask and its application.  A tensor is indexed in its   *)
(* physical layout, x[b][c][t] (channels first; always so in Chainer) or   *)
(* x[b][t][c] (channels last); indices start at 1, time positions at 0.    *)
(***************************************************************************)
Arange(n) == [i \in 1..n |-> i - 1]

Dim1(t) == Len(t[1])
Dim2(t) == Len(t[1][1])

\* (a variant that keeps position x_len[b] too, for comparison)
MaskChainer_OffByOne(t, lens) ==
    [b \in 1..Len(t) |-> [c \in 1..Dim1(t) |-> [i \in 1..Dim2(t) |->
        Arange(Dim2(t))[i] <= lens[b]]]]

\* Chainer: arange(x.shape[2]) broadcast to x.shape < x_len[:, None, None]
MaskChainer(t, lens) ==
    [b \in 1..Len(t) |-> [c \in 1..Dim1(t) |-> [i \in 1..Dim2(t) |->
        Arange(Dim2(t))[i] < lens[b]]]]

\* (a variant that expands the mask at axis 1 in both layouts, for comparison)
MaskTF_ChannelsFirstOnly(t, lens, fmt) ==
    LET max_len == Dim2(t)
        mask == [b \in 1..Len(t) |-> [i \in 1..max_len |-> Arange(max_len)[i] < lens[b]]]
    IN  [b \in 1..Len(t) |-> [c \in 1..Dim1(t) |-> [i \in 1..Dim2(t) |-> mask[b][i]]]]

\* TensorFlow: mask[b][t] = t < x_len[b], then expand_dims at axis 1
\* (channels first) or at the last axis (channels last) and broadcast
MaskTF(t, lens, fmt) ==
    LET max_len == IF fmt = "channels_first" THEN Dim2(t) ELSE Dim1(t)
        mask == [b \in 1..Len(t) |-> [i \in 1..max_len |-> Arange(max_len)[i] < lens[b]]]
    IN  IF fmt = "channels_first"
        THEN [b \in 1..Len(t) |-> [c \in 1..Dim1(t) |-> [i \in 1..Dim2(t) |-> mask[b][i]]]]
        ELSE [b \in 1..Len(t) |-> [i \in 1..Dim1(t) |-> [c \in 1..Dim2(t) |-> mask[b][i]]]]

\* x *= mask (Chainer): every element times 1 or 0
MulMask(t, mask) ==
    [b \in 1..Len(t) |-> [i \in 1..Dim1(t) |-> [j \in 1..Dim2(t) |->
        t[b][i][j] * (IF mask[b][i][j] THEN 1 ELSE 0)]]]

\* tf.where(mask, x, zeros)
Where(mask, t) ==
    [b \in 1..Len(t) |-> [i \in 1..Dim1(t) |-> [j \in 1..Dim2(t) |->
        IF mask[b][i][j] THEN t[b][i][j] ELSE 0]]]

ApplyMask(p, t, lens, fmt) ==
    IF p = "chainer"
    THEN MulMask(t, MaskChainer(t, lens))
    ELSE Where(MaskTF(t, lens, fmt), t)

\* The element of tensor t at batch b, channel c, time position tm (from 0)
At(t, fmt, b, c, tm) ==
    IF fmt = "channels_first" THEN t[b][c][tm + 1] ELSE t[b][tm + 1][c]

TimeDim(t, fmt) == IF fmt = "channels_first" THEN Dim2(t) ELSE Dim1(t)

ChanDim(t, fmt) == IF fmt = "channels_first" THEN Dim1(t) ELSE Dim2(t)

(***************************************************************************)
(* The framework's 1D convolution (a cross-correlation) on numbers: the    *)
(* input is padded with c.pad zeros on both ends of the time axis, output  *)
(* o at position i sums W[o][ch][k] * padded[ch][i * stride + k * dilate]. *)
(* The layer's weights are any; the model fixes pairwise distinct positive *)
(* ones and a layer of one output channel.                                 *)
(***************************************************************************)
Weight(o, ch, k) == 1 + k + MaxK * ((ch - 1) + Chans * (o - 1))

\* the input padded with zeros: position q of the padded time axis, from 0
PaddedAt(t, fmt, pad, b, ch, q) ==
    IF q < pad \/ q >= pad + TimeDim(t, fmt) THEN 0 ELSE At(t, fmt, b, ch, q - pad)

\* the sum of the first n terms of the window: term n is channel
\* (n - 1) \div ksize + 1 at kernel position (n - 1) % ksize
RECURSIVE WindowSum(_, _, _, _, _, _, _)
WindowSum(t, fmt, c, b, o, i, n) ==
    IF n = 0 THEN 0
    ELSE LET ch == ((n - 1) \div c.ksize) + 1
             k == (n - 1) % c.ksize
         IN  Weight(o, ch, k) * PaddedAt(t, fmt, c.pad, b, ch, i * c.stride + k * c.dilate)
               + WindowSum(t, fmt, c, b, o, i, n - 1)

\* one output sample; defined for i < ConvOutSize(TimeDim(t, fmt), c)
ConvAt(t, fmt, c, b, o, i) == WindowSum(t, fmt, c, b, o, i, ChanDim(t, fmt) * c.ksize)

Conv1d(t, fmt, c) ==
    LET out == ConvOutSize(TimeDim(t, fmt), c)
    IN  IF fmt = "channels_first"
        THEN [b \in 1..Len(t) |-> <<[i \in 1..out |-> ConvAt(t, fmt, c, b, 1, i - 1)]>>]
        ELSE [b \in 1..Len(t) |-> [i \in 1..out |-> <<ConvAt(t, fmt, c, b, 1, i - 1)>>]]

(***************************************************************************)
(* Input tensors of the single-layer specification: pairwise distinct      *)
(* non-zero entries, so that every zeroed or moved element shows.          *)
(***************************************************************************)
Elem(b, c, tm) == 1 + tm + MaxT * ((c - 1) + Chans * (b - 1))

InputTensor(fmt, T, scale) ==
    IF fmt = "channels_first"
    THEN [b \in 1..Batch |-> [c \in 1..Chans |-> [i \in 1..T |-> scale * Elem(b, c, i - 1)]]]
    ELSE [b \in 1..Batch |-> [i \in 1..T |-> [c \in 1..Chans |-> scale * Elem(b, c, i - 1)]]]

Formats(p) == IF p = "chainer" THEN {"channels_first"} ELSE {"channels_first", "channels_last"}

NoTensor == <<>>

(***************************************************************************)
(* One MaskConv1d call.                                                     *)
(***************************************************************************)
\* The objects a caller passes as x: the Chainer test passes a plain array,
\* every inner layer receives a Variable; TensorFlow tensors are immutable.
Kinds(p) == IF p = "chainer" THEN {"ndarray", "Variable"} ELSE {"Tensor"}

IdleConv ==
    /\ conv = [ksize |-> 1, stride |-> 1, pad |-> 0, dilate |-> 1, use_mask |-> TRUE,
               data_format |-> "channels_first", x_kind |-> "Tensor"]
    /\ x_in = NoTensor
    /\ x_arg = NoTensor
    /\ x_len_arg = <<>>
    /\ x_masked = NoTensor
    /\ y_time = 0
    /\ y_len = <<>>
    /\ x_out = NoTensor

IdleBuild ==
    /\ args = [factory |-> "", model_type |-> "", version |-> <<>>, use_dw |-> FALSE,
               use_dr |-> FALSE, model_name |-> None, pretrained |-> FALSE,
               in_channels |-> 0, classes |-> 0, data_format |-> ""]
    /\ net = <<>>
    /\ raised = NoError
    /\ io = <<>>

\* Tensors are numbered as they are made: x is the number of the tensor being
\* threaded (0: the caller's), y the numbers of those in the dense-residual
\* list, inputs the numbers of the tensors the blocks applied so far were
\* given, ops the operations of the block applied last
NoTrace == [x |-> 0, y |-> <<>>, inputs |-> <<>>, ops |-> <<>>, fresh |-> 1, val |-> <<>>]

IdleForward ==
    /\ trace = NoTrace
    /\ entry = <<>>
    /\ x = <<>>
    /\ x_len = <<>>
    /\ layer = 0
    /\ convs = <<>>
    /\ result = <<>>

InitConv ==
    /\ port \in Ports
    /\ pc = "MaskConv1d"
    /\ \E k \in 1..MaxK, s \in 1..MaxS, d \in 1..MaxD, p \in 0..MaxP, m \in BOOLEAN :
         \E fmt \in Formats(port), kind \in Kinds(port) :
            conv = [ksize |-> k, stride |-> s, pad |-> p, dilate |-> d, use_mask |-> m,
                    data_format |-> fmt, x_kind |-> kind]
    /\ \E T \in 1..MaxT, sc \in Scales : x_in = InputTensor(conv.data_format, T, sc)
    /\ x_arg = x_in
    \* one batch element of any length, the others of full length
    /\ \E e \in 1..Batch, l \in 0..MaxLen :
          x_len_arg = [b \in 1..Batch |-> IF b = e THEN l ELSE TimeDim(x_in, conv.data_format)]
    /\ x_masked = NoTensor
    /\ y_time = 0
    /\ y_len = <<>>
    /\ x_out = NoTensor
    /\ IdleBuild
    /\ IdleForward

\* MaskConv1d.__call__ (Chainer) / MaskConv1d.call (TensorFlow)
MaskConv1dCall ==
    /\ pc = "MaskConv1d"
    /\ LET fmt == conv.data_format
           xm == IF conv.use_mask THEN ApplyMask(port, x_arg, x_len_arg, fmt) ELSE x_arg
           new_len == IF conv.use_mask
                      THEN [b \in DOMAIN x_len_arg |-> MaskConv1dLen(port, x_len_arg[b], conv)]
                      ELSE x_len_arg
           out == ConvOutSize(TimeDim(x_arg, fmt), conv)
       IN  /\ x_masked' = xm
           \* x *= mask works in place on a plain array and rebinds otherwise
           /\ x_arg' = IF port = "chainer" /\ conv.x_kind = "ndarray" THEN xm ELSE x_arg
           \* the framework's convolution raises when no output position exists
           /\ IF out >= 1
              THEN /\ pc' = "returned" /\ y_time' = out /\ y_len' = new_len
                   /\ x_out' = Conv1d(x_masked', fmt, conv)
              ELSE /\ pc' = "conv_raised" /\ y_time' = 0 /\ y_len' = <<>>
                   /\ x_out' = NoTensor
    /\ UNCHANGED <<port, conv, x_in, x_len_arg>>
    /\ UNCHANGED buildVars
    /\ UNCHANGED fwdVars

NextConv == MaskConv1dCall

SpecConv == InitConv /\ [][NextConv]_vars

(***************************************************************************)
(* Strings: str.split and int, as get_jasper uses them on version[1].      *)
(***************************************************************************)
Chars == {"1", "5", "x", "a"}

DigitChars == <<"0", "1", "2", "3", "4", "5", "6", "7", "8", "9">>

IsDigit(c) == \E d \in 1..10 : DigitChars[d] = c

DigitValue(c) == (CHOOSE d \in 1..10 : DigitChars[d] = c) - 1

\* s.split(sep) for a one-character separator: the fields between separators,
\* empty fields kept
RECURSIVE split(_, _)
split(s, sep) ==
    IF \E i \in 1..Len(s) : s[i] = sep
    THEN LET i == CHOOSE k \in 1..Len(s) : s[k] = sep /\ \A j \in 1..(k - 1) : s[j] # sep
         IN  <<SubSeq(s, 1, i - 1)>> \o split(SubSeq(s, i + 1, Len(s)), sep)
    ELSE <<s>>

\* The strings int() accepts, over digits and signs: an optional sign and at
\* least one digit
Unsigned(f) == IF f # <<>> /\ f[1] \in {"+", "-"} THEN Tail(f) ELSE f

\* (a variant that reads an empty field as 0, for comparison)
IsIntLiteral_EmptyIsZero(f) == \A i \in 1..Len(Unsigned(f)) : IsDigit(Unsigned(f)[i])

IsIntLiteral(f) == Unsigned(f) # <<>> /\ \A i \in 1..Len(Unsigned(f)) : IsDigit(Unsigned(f)[i])

RECURSIVE DecimalValue(_)
DecimalValue(ds) ==
    IF ds = <<>> THEN 0
    ELSE 10 * DecimalValue(SubSeq(ds, 1, Len(ds) - 1)) + DigitValue(ds[Len(ds)])

int(f) == IF f # <<>> /\ f[1] = "-" THEN -DecimalValue(Unsigned(f)) ELSE DecimalValue(Unsigned(f))

\* The decimal numeral of n >= 0, as a caller writes it into a version string
RECURSIVE Numeral(_)
Numeral(n) ==
    IF n < 10 THEN <<DigitChars[n + 1]>>
    ELSE Numeral(n \div 10) \o <<DigitChars[(n % 10) + 1]>>

\* The decimal numeral of any n, with its sign
SignedNumeral(n) == IF n < 0 THEN <<"-">> \o Numeral(-n) ELSE Numeral(n)

(***************************************************************************)
(* Lists: [a] * r and sum(lists, []).                                      *)
(***************************************************************************)
\* (a variant that keeps one copy when r <= 0, for comparison)
ListTimes_AtLeastOne(a, r) == [i \in 1..(IF r < 1 THEN 1 ELSE r) |-> a]

\* [a] * r: r copies of a, none when r <= 0
ListTimes(a, r) == [i \in 1..r |-> a]

\* sum(lists, []): the lists concatenated in order
RECURSIVE SumLists(_)
SumLists(lists) ==
    IF lists = <<>> THEN <<>>
    ELSE SumLists(SubSeq(lists, 1, Len(lists) - 1)) \o lists[Len(lists)]

(***************************************************************************)
(* get_jasper: the per-family tables and the stage schedule.               *)
(***************************************************************************)
AudioFeatures == 64
DefaultClasses == 29
StageCount == 8

channels_per_stage(model_type) ==
    IF model_type = "jasper"
    THEN <<256, 256, 384, 512, 640, 768, 896, 1024>>
    ELSE <<256, 256, 256, 512, 512, 512, 512, 1024>>

ksizes_per_stage(model_type) ==
    IF model_type = "jasper"
    THEN <<11, 11, 13, 17, 21, 25, 29, 1>>
    ELSE <<33, 33, 39, 51, 63, 75, 87, 1>>

\* in tenths
dropout_rates_per_stage(model_type) ==
    IF model_type = "jasper"
    THEN <<2, 2, 2, 2, 3, 3, 4, 4>>
    ELSE ListTimes(0, StageCount)

\* (a variant that repeats entries 1..6 of the table, for comparison)
stage_repeat_OneTooMany(main_stage_repeat) ==
    [i \in 1..StageCount |-> IF i >= 2 /\ i <= StageCount - 1 THEN 1 * main_stage_repeat ELSE 1]

\* stage_repeat = np.full((8,), 1); stage_repeat[1:-2] *= main_stage_repeat
stage_repeat(main_stage_repeat) ==
    [i \in 1..StageCount |-> IF i >= 2 /\ i <= StageCount - 2 THEN 1 * main_stage_repeat ELSE 1]

\* (a variant that repeats the run of main stages as a whole, B1..B5 B1..B5,
\* instead of each stage in place, for comparison)
Schedule_WholeRun(per_stage, repeats) ==
    <<per_stage[1]>>
    \o SumLists([j \in 1..repeats[2] |-> SubSeq(per_stage, 2, Len(per_stage) - 2)])
    \o SubSeq(per_stage, Len(per_stage) - 1, Len(per_stage))

\* sum([[a] * r for (a, r) in zip(per_stage, stage_repeat)], [])
Schedule(per_stage, repeats) ==
    SumLists([i \in 1..Len(per_stage) |-> ListTimes(per_stage[i], repeats[i])])

(***************************************************************************)
(* The layers, as their constructors build them.  A convolution block is   *)
(* kept as the MaskConv1d layers it applies in order (one, or the          *)
(* depthwise and the pointwise one) and its flags.                         *)
(***************************************************************************)
MaskConv1d(in_channels, out_channels, ksize, stride, pad, dilate, groups) ==
    [in_channels |-> in_channels, out_channels |-> out_channels, ksize |-> ksize,
     stride |-> stride, pad |-> pad, dilate |-> dilate, groups |-> groups, use_mask |-> TRUE]

\* ksize 1; stride defaults to 1, pad to 0, dilate to 1
mask_conv1d1(in_channels, out_channels, groups) ==
    MaskConv1d(in_channels, out_channels, 1, 1, 0, 1, groups)

MaskConvBlock1d(in_channels, out_channels, ksize, stride, pad, dilate, activation, dropout_rate) ==
    [cls |-> "MaskConvBlock1d",
     convs |-> <<MaskConv1d(in_channels, out_channels, ksize, stride, pad, dilate, 1)>>,
     use_bn |-> TRUE, activate |-> activation, use_dropout |-> dropout_rate # 0,
     dropout_rate |-> dropout_rate, use_channel_shuffle |-> FALSE]

\* self.use_channel_shuffle = (groups > 1)
UseChannelShuffle(groups) == groups > 1

\* DwsConvBlock1d.__init__ with its groups argument (of the pointwise convolution)
DwsConvBlock1dGrouped(in_channels, out_channels, ksize, stride, pad, dilate, groups, activation, dropout_rate) ==
    [cls |-> "DwsConvBlock1d",
     convs |-> <<MaskConv1d(in_channels, in_channels, ksize, stride, pad, dilate, in_channels),
                 mask_conv1d1(in_channels, out_channels, groups)>>,
     use_bn |-> TRUE, activate |-> activation, use_dropout |-> dropout_rate # 0,
     dropout_rate |-> dropout_rate, use_channel_shuffle |-> UseChannelShuffle(groups)]

\* groups defaults to 1 and no caller sets it
DwsConvBlock1d(in_channels, out_channels, ksize, stride, pad, dilate, activation, dropout_rate) ==
    DwsConvBlock1dGrouped(in_channels, out_channels, ksize, stride, pad, dilate, 1,
                          activation, dropout_rate)

\* (a variant that keeps the default activation, for comparison)
mask_conv1d1_block_Activated(in_channels, out_channels, activation, dropout_rate) ==
    MaskConvBlock1d(in_channels, out_channels, 1, 1, 0, 1, TRUE, dropout_rate)

mask_conv1d1_block(in_channels, out_channels, activation, dropout_rate) ==
    MaskConvBlock1d(in_channels, out_channels, 1, 1, 0, 1, activation, dropout_rate)

\* block_class = DwsConvBlock1d if use_dw else MaskConvBlock1d
block_class(use_dw, in_channels, out_channels, ksize, stride, pad, dilate, activation, dropout_rate) ==
    IF use_dw
    THEN DwsConvBlock1d(in_channels, out_channels, ksize, stride, pad, dilate, activation, dropout_rate)
    ELSE MaskConvBlock1d(in_channels, out_channels, ksize, stride, pad, dilate, activation, dropout_rate)

\* (a variant whose last body block is activated as the others, for comparison)
JasperUnit_LastBlockActivated(in_channels, out_channels, ksize, dropout_rate, repeat, use_dw, use_dr) ==
    LET body_in == IF use_dr THEN in_channels[Len(in_channels)] ELSE in_channels
    IN  [cls |-> "JasperUnit",
         use_dr |-> use_dr,
         use_dropout |-> dropout_rate # 0,
         dropout_rate |-> dropout_rate,
         identity_block |->
             IF use_dr
             THEN [i \in 1..Len(in_channels) |->
                      mask_conv1d1_block(in_channels[i], out_channels, FALSE, 0)]
             ELSE <<mask_conv1d1_block(in_channels, out_channels, FALSE, 0)>>,
         body |->
             [i \in 1..repeat |->
                 block_class(use_dw, IF i = 1 THEN body_in ELSE out_channels, out_channels,
                             ksize, 1, FloorDiv(ksize, 2), 1, TRUE, dropout_rate)]]

\* (a variant that projects the unit's own input only, for comparison)
JasperUnit_OwnInputOnly(in_channels, out_channels, ksize, dropout_rate, repeat, use_dw, use_dr) ==
    LET body_in == IF use_dr THEN in_channels[Len(in_channels)] ELSE in_channels
    IN  [cls |-> "JasperUnit",
         use_dr |-> use_dr,
         use_dropout |-> dropout_rate # 0,
         dropout_rate |-> dropout_rate,
         identity_block |-> <<mask_conv1d1_block(body_in, out_channels, FALSE, 0)>>,
         body |->
             [i \in 1..repeat |->
                 block_class(use_dw, IF i = 1 THEN body_in ELSE out_channels, out_channels,
                             ksize, 1, FloorDiv(ksize, 2), 1,
                             i - 1 < repeat - 1,
                             IF i - 1 < repeat - 1 THEN dropout_rate ELSE 0)]]

\* JasperUnit.__init__: in_channels is a list in dense-residual mode
JasperUnit(in_channels, out_channels, ksize, dropout_rate, repeat, use_dw, use_dr) ==
    LET body_in == IF use_dr THEN in_channels[Len(in_channels)] ELSE in_channels
    IN  [cls |-> "JasperUnit",
         use_dr |-> use_dr,
         use_dropout |-> dropout_rate # 0,
         dropout_rate |-> dropout_rate,
         identity_block |->
             IF use_dr
             THEN [i \in 1..Len(in_channels) |->
                      mask_conv1d1_block(in_channels[i], out_channels, FALSE, 0)]
             ELSE <<mask_conv1d1_block(in_channels, out_channels, FALSE, 0)>>,
         body |->
             [i \in 1..repeat |->
                 block_class(use_dw, IF i = 1 THEN body_in ELSE out_channels, out_channels,
                             ksize, 1, FloorDiv(ksize, 2), 1,
                             i - 1 < repeat - 1,
                             IF i - 1 < repeat - 1 THEN dropout_rate ELSE 0)]]

\* (a variant whose first block is padded as a body block is, for comparison)
JasperFinalBlock_BodyPadding(in_channels, channels, ksizes, dropout_rates, use_dw, use_dr) ==
    LET n == Len(channels)
    IN  [cls |-> "JasperFinalBlock",
         use_dr |-> use_dr,
         conv1 |-> block_class(use_dw, in_channels, channels[n - 1], ksizes[n - 1], 1,
                               FloorDiv(ksizes[n - 1], 2), 2, TRUE, dropout_rates[n - 1]),
         conv2 |-> MaskConvBlock1d(channels[n - 1], channels[n], ksizes[n], 1,
                                   FloorDiv(ksizes[n], 2), 1, TRUE, dropout_rates[n])]

\* JasperFinalBlock.__init__: channels[-2], channels[-1] and so on
JasperFinalBlock(in_channels, channels, ksizes, dropout_rates, use_dw, use_dr) ==
    LET n == Len(channels)
    IN  [cls |-> "JasperFinalBlock",
         use_dr |-> use_dr,
         conv1 |-> block_class(use_dw, in_channels, channels[n - 1], ksizes[n - 1], 1,
                               FloorDiv(2 * ksizes[n - 1], 2) - 1, 2, TRUE, dropout_rates[n - 1]),
         conv2 |-> MaskConvBlock1d(channels[n - 1], channels[n], ksizes[n], 1,
                                   FloorDiv(ksizes[n], 2), 1, TRUE, dropout_rates[n])]

\* (a variant whose stem does not stride, for comparison)
init_block_Stride1(n) ==
    block_class(n.use_dw, n.in_size, n.channels[1], n.ksizes[1], 1,
                FloorDiv(n.ksizes[1], 2), 1, TRUE, n.dropout_rates[1])

\* Jasper.__init__: the stem
init_block(n) ==
    block_class(n.use_dw, n.in_size, n.channels[1], n.ksizes[1], 2,
                FloorDiv(n.ksizes[1], 2), 1, TRUE, n.dropout_rates[1])

\* Jasper.__init__: the loop over channels[1:-2], from unit i on
RECURSIVE JasperUnits(_, _, _, _)
JasperUnits(n, i, in_channels, in_channels_list) ==
    IF i > Len(n.channels) - 3 THEN <<>>
    ELSE LET list == in_channels_list \o <<in_channels>>
             out_channels == n.channels[i + 1]
         IN  <<JasperUnit(IF n.use_dr THEN list ELSE in_channels, out_channels,
                          n.ksizes[i + 1], n.dropout_rates[i + 1], n.repeat, n.use_dw, n.use_dr)>>
             \o JasperUnits(n, i + 1, out_channels, list)

\* Jasper.__init__: self.features
Features(n) ==
    LET units == JasperUnits(n, 1, n.channels[1], <<>>)
        in_channels == n.channels[Len(units) + 1]
    IN  <<init_block(n)>> \o units
        \o <<JasperFinalBlock(in_channels, n.channels, n.ksizes, n.dropout_rates, n.use_dw, n.use_dr)>>

\* Jasper.__init__: self.output, a plain 1x1 convolution with bias
output(n) ==
    [in_channels |-> n.channels[Len(n.channels)], out_channels |-> n.classes, ksize |-> 1,
     stride |-> 1, pad |-> 0, dilate |-> 1, groups |-> 1, use_mask |-> FALSE]

\* Jasper.__init__: the object, with the arguments it was built from
Jasper(channels, ksizes, dropout_rates, repeat, use_dw, use_dr, in_channels, classes, fmt) ==
    LET n == [channels |-> channels, ksizes |-> ksizes, dropout_rates |-> dropout_rates,
              repeat |-> repeat, use_dw |-> use_dw, use_dr |-> use_dr,
              in_size |-> in_channels, classes |-> classes, data_format |-> fmt]
    IN  [channels |-> channels, ksizes |-> ksizes, dropout_rates |-> dropout_rates,
         repeat |-> repeat, use_dw |-> use_dw, use_dr |-> use_dr,
         in_size |-> in_channels, classes |-> classes, data_format |-> fmt,
         features |-> Features(n), output |-> output(n)]

Raise(type, at) == [ok |-> FALSE, raised |-> [type |-> type, at |-> at], net |-> <<>>,
                    pretrained |-> FALSE]

\* (a variant that accepts every family name as QuartzNet, for comparison)
KnownModelType_Any(model_type) == TRUE

KnownModelType(model_type) == model_type = "jasper" \/ model_type = "quartznet"

\* blocks, repeat = tuple(...): exactly two values unpack
Unpack2(fields) == Len(fields) = 2

\* get_jasper up to the construction of the net (the model-store part follows
\* in the action): the first exception raised, or the net
get_jasper(a) ==
    LET fields == split(a.version, "x")
    IN  IF \E i \in 1..Len(fields) : ~IsIntLiteral(fields[i])
        THEN Raise("ValueError", "int")
        ELSE IF ~Unpack2(fields)
        THEN Raise("ValueError", "unpack")
        ELSE LET blocks == int(fields[1])
                 repeat == int(fields[2])
                 main_stage_repeat == FloorDiv(blocks, 5)
             IN  IF ~KnownModelType(a.model_type)
                 THEN Raise("ValueError", "model_type")
                 ELSE LET repeats == stage_repeat(main_stage_repeat)
                          channels == Schedule(channels_per_stage(a.model_type), repeats)
                          ksizes == Schedule(ksizes_per_stage(a.model_type), repeats)
                          dropout_rates == Schedule(dropout_rates_per_stage(a.model_type), repeats)
                      IN  [ok |-> TRUE, raised |-> NoError,
                           net |-> Jasper(channels, ksizes, dropout_rates, repeat, a.use_dw,
                                          a.use_dr, a.in_channels, a.classes, a.data_format),
                           pretrained |-> a.pretrained]

\* (a variant that tests only for None, for comparison)
MissingModelName_NoneOnly(model_name) == model_name.none

\* (model_name is None) or (not model_name)
MissingModelName(model_name) == model_name.none \/ model_name.str = ""

\* What the model store and the weight loader may do: both are external
ExternalOutcomes == {"loaded", "get_model_file raises", "load raises"}

\* get_jasper, the whole call
GetJasper ==
    /\ pc = "get_jasper"
    /\ LET r == get_jasper(args)
       IN  IF ~r.ok
           THEN pc' = "raised" /\ raised' = r.raised /\ net' = <<>> /\ io' = io
           ELSE IF ~r.pretrained
           THEN pc' = "built" /\ raised' = NoError /\ net' = r.net /\ io' = io
           ELSE IF MissingModelName(args.model_name)
           THEN pc' = "raised" /\ raised' = [type |-> "ValueError", at |-> "model_name"]
                /\ net' = <<>> /\ io' = io
           ELSE IF port = "tf"
           \* input_shape = (1,) + (in_channels,) + net.in_size: a tuple plus an int
           THEN pc' = "raised" /\ raised' = [type |-> "TypeError", at |-> "input_shape"]
                /\ net' = <<>> /\ io' = io
           ELSE \E outcome \in ExternalOutcomes :
                   IF outcome = "get_model_file raises"
                   THEN pc' = "raised" /\ raised' = [type |-> "external", at |-> "get_model_file"]
                        /\ net' = <<>> /\ io' = io \o <<"get_model_file">>
                   ELSE IF outcome = "load raises"
                   THEN pc' = "raised" /\ raised' = [type |-> "external", at |-> "load_npz"]
                        /\ net' = <<>> /\ io' = io \o <<"get_model_file", "load_npz">>
                   ELSE pc' = "built" /\ raised' = NoError /\ net' = r.net
                        /\ io' = io \o <<"get_model_file", "load_npz">>
    /\ UNCHANGED <<port, args>>
    /\ UNCHANGED convVars
    /\ UNCHANGED fwdVars

ModelTypes == {"jasper", "quartznet", "wav2letter"}
ModelNames == {None, Str(""), Str("jasper5x3")}

Strings(n) == UNION {[1..k -> Chars] : k \in 0..n}

\* The version strings of SpecBuild: every string, but of those that read as
\* two integers only the ones with both at most MaxNumeral
Versions ==
    {v \in Strings(MaxVerLen) :
        LET fields == split(v, "x")
        IN  (Len(fields) = 2 /\ IsIntLiteral(fields[1]) /\ IsIntLiteral(fields[2]))
                => (int(fields[1]) <= MaxNumeral /\ int(fields[2]) <= MaxNumeral)}

InitBuild ==
    /\ port \in Ports
    /\ pc = "get_jasper"
    /\ \E v \in Versions, t \in ModelTypes, dw \in BOOLEAN, dr \in BOOLEAN :
         \E pre \in BOOLEAN, name \in ModelNames :
            args = [factory |-> "get_jasper", model_type |-> t, version |-> v, use_dw |-> dw,
                    use_dr |-> dr, model_name |-> name, pretrained |-> pre,
                    in_channels |-> AudioFeatures, classes |-> DefaultClasses,
                    data_format |-> IF port = "tf" THEN "channels_last" ELSE "channels_first"]
    /\ net = <<>>
    /\ raised = NoError
    /\ io = <<>>
    /\ IdleConv
    /\ IdleForward

NextBuild == GetJasper

SpecBuild == InitBuild /\ [][NextBuild]_vars

(***************************************************************************)
(* The forward pass on shapes and lengths.  A tensor is its shape          *)
(* [batch, channels, time].  The second value threaded is a length vector  *)
(* [kind "vec"], one length [kind "scalar"], or the dense-residual tuple   *)
(* (x_len, y, y_len) [kind "tuple"].                                       *)
(***************************************************************************)
Vec(v) == [kind |-> "vec", v |-> v]
Scalar(n) == [kind |-> "scalar", v |-> n]
Tuple(l, y, yl) == [kind |-> "tuple", x_len |-> l, y |-> y, y_len |-> yl]

Ok(xs, lv, calls) == [ok |-> TRUE, x |-> xs, x_len |-> lv, calls |-> calls, err |-> NoError]
Err(type, at, calls) ==
    [ok |-> FALSE, x |-> <<>>, x_len |-> <<>>, calls |-> calls, err |-> [type |-> type, at |-> at]]

\* The length update on the value threaded: elementwise on a vector
LenUpdate(p, c, lv) ==
    IF lv.kind = "vec"
    THEN Vec([b \in DOMAIN lv.v |-> MaskConv1dLen(p, lv.v[b], c)])
    ELSE Scalar(MaskConv1dLen(p, lv.v, c))

\* MaskConv1d.__call__ on a shape.  In Chainer F.expand_dims refuses a NumPy
\* scalar; in TensorFlow a scalar length broadcasts over the batch.
MaskConv1dCallOn(p, c, xs, lv) ==
    IF lv.kind = "tuple" THEN Err("TypeError", "mask", <<>>)
    ELSE IF p = "chainer" /\ lv.kind = "scalar" THEN Err("TypeError", "expand_dims", <<>>)
    ELSE IF xs.channels # c.in_channels THEN Err("shape", "convolution", <<>>)
    ELSE IF ConvOutSize(xs.time, c) < 1 THEN Err("shape", "convolution", <<>>)
    ELSE LET out == [batch |-> xs.batch, channels |-> c.out_channels,
                     time |-> ConvOutSize(xs.time, c)]
             new_len == LenUpdate(p, c, lv)
         IN  Ok(out, new_len, <<[conv |-> c, x |-> out, x_len |-> new_len, len_in |-> lv]>>)

\* The MaskConv1d layers of a block, one after the other
RECURSIVE RunConvs(_, _, _, _, _)
RunConvs(p, cs, xs, lv, calls) ==
    IF cs = <<>> THEN Ok(xs, lv, calls)
    ELSE LET r == MaskConv1dCallOn(p, cs[1], xs, lv)
         IN  IF r.ok THEN RunConvs(p, Tail(cs), r.x, r.x_len, calls \o r.calls)
             ELSE Err(r.err.type, r.err.at, calls)

\* MaskConvBlock1d.__call__ / DwsConvBlock1d.__call__: normalization, activation,
\* dropout and shuffle change neither the shape nor the length
BlockCall(p, blk, xs, lv) == RunConvs(p, blk.convs, xs, lv, <<>>)

\* DualPathSequential: each block in order on the pair the one before returned
RECURSIVE DualPathSequential(_, _, _, _, _)
DualPathSequential(p, blocks, xs, lv, calls) ==
    IF blocks = <<>> THEN Ok(xs, lv, calls)
    ELSE LET r == BlockCall(p, blocks[1], xs, lv)
         IN  IF r.ok
             THEN DualPathSequential(p, Tail(blocks), r.x, r.x_len, calls \o r.calls)
             ELSE Err(r.err.type, r.err.at, calls \o r.calls)

\* DualPathParallelConcurent: block j on the j-th tensor and the j-th length
DualPathParallelConcurent(p, blocks, y, yl) ==
    [j \in 1..(IF Len(blocks) < Len(y) THEN Len(blocks) ELSE Len(y)) |->
        BlockCall(p, blocks[j], y[j], yl[j])]

RECURSIVE Flatten(_)
Flatten(rs) == IF rs = <<>> THEN <<>> ELSE rs[1].calls \o Flatten(Tail(rs))

\* (a variant that puts the new entry first, for comparison)
AccumulateList_Prepend(is_none, list, item) ==
    IF is_none THEN <<item>> ELSE <<item>> \o list

\* y = [x] if y is None else y + [x]
AccumulateList(is_none, list, item) ==
    IF is_none THEN <<item>> ELSE list \o <<item>>

\* (a variant that returns the tuple in either mode, for comparison)
UnitReturnLen_AlwaysTuple(use_dr, len, ys, ys_len) == Tuple(len, ys, ys_len)

\* return x, (x_len, y, y_len) in dense-residual mode, else return x, x_len
UnitReturnLen(use_dr, len, ys, ys_len) ==
    IF use_dr THEN Tuple(len, ys, ys_len) ELSE len

\* JasperUnit.__call__
JasperUnitCallOn(p, u, xs, lv) ==
    LET in_len == IF u.use_dr /\ lv.kind = "tuple" THEN lv.x_len ELSE lv
        ys == IF u.use_dr
              THEN AccumulateList(lv.kind # "tuple", IF lv.kind = "tuple" THEN lv.y ELSE <<>>, xs)
              ELSE <<xs>>
        ys_len == IF u.use_dr
                  THEN AccumulateList(lv.kind # "tuple",
                                      IF lv.kind = "tuple" THEN lv.y_len ELSE <<>>, in_len)
                  ELSE <<in_len>>
        ids == IF u.use_dr
               THEN DualPathParallelConcurent(p, u.identity_block, ys, ys_len)
               ELSE <<BlockCall(p, u.identity_block[1], xs, lv)>>
        id_calls == Flatten(ids)
        body == DualPathSequential(p, u.body, xs, in_len, <<>>)
    IN  IF \E j \in 1..Len(ids) : ~ids[j].ok
        THEN LET j == CHOOSE k \in 1..Len(ids) : ~ids[k].ok
             IN  Err(ids[j].err.type, ids[j].err.at, id_calls)
        \* F.stack wants equal shapes
        ELSE IF \E j \in 1..Len(ids) : ids[j].x # ids[1].x
        THEN Err("shape", "stack", id_calls)
        ELSE IF ~body.ok
        THEN Err(body.err.type, body.err.at, id_calls \o body.calls)
        \* x = x + identity
        ELSE IF body.x # ids[1].x
        THEN Err("shape", "add", id_calls \o body.calls)
        ELSE Ok(body.x,
                UnitReturnLen(u.use_dr, body.x_len, ys, ys_len),
                id_calls \o body.calls)

\* x_len[0]: the first member of the tuple, or the first element of a vector
Index0(lv) ==
    IF lv.kind = "tuple" THEN lv.x_len
    ELSE IF lv.kind = "vec" THEN Scalar(lv.v[1])
    ELSE lv

\* JasperFinalBlock.__call__
JasperFinalBlockCallOn(p, f, xs, lv) ==
    LET in_len == IF f.use_dr THEN Index0(lv) ELSE lv
    IN  IF f.use_dr /\ lv.kind = "scalar" THEN Err("IndexError", "x_len[0]", <<>>)
        ELSE DualPathSequential(p, <<f.conv1, f.conv2>>, xs, in_len, <<>>)

\* self.output(x): the framework's plain convolution
OutputCallOn(c, xs) ==
    IF xs.channels # c.in_channels \/ ConvOutSize(xs.time, c) < 1
    THEN Err("shape", "convolution", <<>>)
    ELSE Ok([batch |-> xs.batch, channels |-> c.out_channels, time |-> ConvOutSize(xs.time, c)],
            <<>>, <<>>)

(***************************************************************************)
(* The operations a block applies, in order, on numbered tensors: each     *)
(* operation reads the tensors `in` and makes the tensor `out`.            *)
(***************************************************************************)
NoArg == [none |-> TRUE]

Part(part, k) == [part |-> part, k |-> k]

\* MaskConv1d.__call__: the mask (when use_mask), then the convolution
RECURSIVE ConvSteps(_)
ConvSteps(cs) ==
    IF cs = <<>> THEN <<>>
    ELSE (IF cs[1].use_mask THEN <<[op |-> "mask", arg |-> cs[1]]>> ELSE <<>>)
         \o <<[op |-> "conv", arg |-> cs[1]]>> \o ConvSteps(Tail(cs))

\* (a variant that shuffles after the normalization, for comparison)
BlockSteps_ShuffleAfterBn(blk) ==
    ConvSteps(blk.convs)
    \o (IF blk.use_bn THEN <<[op |-> "bn", arg |-> NoArg]>> ELSE <<>>)
    \o (IF blk.use_channel_shuffle THEN <<[op |-> "shuffle", arg |-> NoArg]>> ELSE <<>>)
    \o (IF blk.activate THEN <<[op |-> "relu", arg |-> NoArg]>> ELSE <<>>)
    \o (IF blk.use_dropout THEN <<[op |-> "dropout", arg |-> NoArg]>> ELSE <<>>)

\* MaskConvBlock1d.__call__ / DwsConvBlock1d.__call__
BlockSteps(blk) ==
    ConvSteps(blk.convs)
    \o (IF blk.use_channel_shuffle THEN <<[op |-> "shuffle", arg |-> NoArg]>> ELSE <<>>)
    \o (IF blk.use_bn THEN <<[op |-> "bn", arg |-> NoArg]>> ELSE <<>>)
    \o (IF blk.activate THEN <<[op |-> "relu", arg |-> NoArg]>> ELSE <<>>)
    \o (IF blk.use_dropout THEN <<[op |-> "dropout", arg |-> NoArg]>> ELSE <<>>)

\* x = step(x), one step after the other, from tensor `in`; new tensors are
\* numbered from base
Chain(steps, by, in, base) ==
    [k \in 1..Len(steps) |->
        [op |-> steps[k].op, arg |-> steps[k].arg, by |-> by,
         in |-> <<IF k = 1 THEN in ELSE base + k - 2>>, out |-> base + k - 1]]

ChainOut(ops, in) == IF ops = <<>> THEN in ELSE ops[Len(ops)].out

\* DualPathSequential on numbered tensors
RECURSIVE SequentialOps(_, _, _, _, _)
SequentialOps(blocks, part, i, in, base) ==
    IF i > Len(blocks) THEN <<>>
    ELSE LET ops == Chain(BlockSteps(blocks[i]), Part(part, i), in, base)
         IN  ops \o SequentialOps(blocks, part, i + 1, ChainOut(ops, in), base + Len(ops))

\* DualPathParallelConcurent on numbered tensors
RECURSIVE ParallelOps(_, _, _, _, _)
ParallelOps(blocks, part, j, ins, base) ==
    IF j > Len(blocks) \/ j > Len(ins) THEN <<>>
    ELSE LET ops == Chain(BlockSteps(blocks[j]), Part(part, j), ins[j], base)
         IN  ops \o ParallelOps(blocks, part, j + 1, ins, base + Len(ops))

\* the tensor branch j of a parallel block returned
BranchOut(ops, part, j, ins) ==
    LET mine == {k \in 1..Len(ops) : ops[k].by = Part(part, j)}
    IN  IF mine = {} THEN ins[j]
        ELSE ops[CHOOSE k \in mine : \A m \in mine : m <= k].out

\* (a variant that applies the activation before the addition, for comparison)
UnitTailSteps_ActivationFirst(u) ==
    <<"relu", "add">> \o (IF u.use_dropout THEN <<"dropout">> ELSE <<>>)

\* x = x + identity; x = self.activ(x); if self.use_dropout: x = self.dropout(x)
UnitTailSteps(u) ==
    <<"add", "relu">> \o (IF u.use_dropout THEN <<"dropout">> ELSE <<>>)

\* JasperUnit.__call__ on numbered tensors: y is the list found in the tuple
UnitOps(u, in, is_none, y, base) ==
    LET ys == IF u.use_dr THEN AccumulateList(is_none, y, in) ELSE <<in>>
        ident == ParallelOps(u.identity_block, "identity", 1, ys, base)
        n == IF Len(u.identity_block) < Len(ys) THEN Len(u.identity_block) ELSE Len(ys)
        base1 == base + Len(ident)
        \* identity = F.stack(tuple(identity), axis=1); identity = F.sum(identity, axis=1)
        reduce == IF u.use_dr
                  THEN <<[op |-> "stack", arg |-> NoArg, by |-> Part("unit", 0),
                          in |-> [j \in 1..n |-> BranchOut(ident, "identity", j, ys)],
                          out |-> base1],
                         [op |-> "sum", arg |-> NoArg, by |-> Part("unit", 0),
                          in |-> <<base1>>, out |-> base1 + 1]>>
                  ELSE <<>>
        identity == IF u.use_dr THEN base1 + 1 ELSE BranchOut(ident, "identity", 1, ys)
        base2 == base1 + Len(reduce)
        body == SequentialOps(u.body, "body", 1, in, base2)
        base3 == base2 + Len(body)
        steps == UnitTailSteps(u)
        tail == [k \in 1..Len(steps) |->
                    [op |-> steps[k], arg |-> NoArg, by |-> Part("unit", 0),
                     in |-> IF steps[k] = "add"
                            THEN <<IF k = 1 THEN ChainOut(body, in) ELSE base3 + k - 2, identity>>
                            ELSE <<IF k = 1 THEN ChainOut(body, in) ELSE base3 + k - 2>>,
                     out |-> base3 + k - 1]]
    IN  ident \o reduce \o body \o tail

\* JasperFinalBlock.__call__ on numbered tensors
FinalOps(f, in, base) == SequentialOps(<<f.conv1, f.conv2>>, "final", 1, in, base)

\* what a block of self.features does
LayerOps(l, in, is_none, y, base) ==
    IF l.cls = "JasperUnit" THEN UnitOps(l, in, is_none, y, base)
    ELSE IF l.cls = "JasperFinalBlock" THEN FinalOps(l, in, base)
    ELSE Chain(BlockSteps(l), Part("init_block", 1), in, base)

\* the list a block leaves in the tuple it returns
LayerY(l, in, is_none, y) ==
    IF l.cls = "JasperUnit" /\ l.use_dr THEN AccumulateList(is_none, y, in)
    ELSE <<>>

(***************************************************************************)
(* What the operations do to the samples.  A tensor is kept as its time    *)
(* dimension and the set nz of the (batch element, position) pairs whose   *)
(* samples are not zero, one channel standing for all.  Every weight is    *)
(* positive and the normalization has its initial statistics (mean 0,      *)
(* variance 1, gamma 1, beta 0), so a sample stays non-negative, and is    *)
(* not zero after a convolution exactly when a sample under the kernel is  *)
(* not zero.  Positions are from 0.                                        *)
(***************************************************************************)
\* the positions of a tensor of T samples
Positions(T) == UNION {{<<b, i>> : i \in 0..(T - 1)} : b \in 1..Batch}

\* the caller's tensor: no sample is zero, the padding included.  diff is the
\* set of the positions where the tensor of a second call, made with the same
\* x_len and the same samples below x_len[b], may hold another value: at first
\* the positions from x_len[b] on.
Samples(T, lens) ==
    [time |-> T, nz |-> Positions(T), diff |-> {q \in Positions(T) : q[2] >= lens[q[1]]}]

\* the lengths a mask is made of: a scalar broadcasts over the batch
MaskLens(lv) == IF lv.kind = "vec" THEN lv.v ELSE [b \in 1..Batch |-> lv.v]

\* (a variant that leaves the tensor as it is, for comparison)
Masked_Unmasked(t, lens) == t

\* (a variant that keeps position x_len[b] too, for comparison)
Masked_OffByOne(t, lens) ==
    [time |-> t.time, nz |-> {q \in t.nz : q[2] <= lens[q[1]]},
     diff |-> {q \in t.diff : q[2] <= lens[q[1]]}]

\* if self.use_mask: position i of element b is kept when i < x_len[b]
\* (a zeroed sample is zero in either call)
Masked(t, lens) ==
    [time |-> t.time, nz |-> {q \in t.nz : q[2] < lens[q[1]]},
     diff |-> {q \in t.diff : q[2] < lens[q[1]]}]

\* the output positions that have a member of S under the kernel
UnderKernel(S, T, c) ==
    {q \in Positions(ConvOutSize(T, c)) :
        \E k \in 0..(c.ksize - 1) : <<q[1], q[2] * c.stride - c.pad + k * c.dilate>> \in S}

\* F.convolution_1d / tf conv1d: sample i of the output is under the kernel
\* positions i*stride - pad + k*dilate of the input; the padding is zero
Convolve(t, c) ==
    [time |-> ConvOutSize(t.time, c),
     nz |-> UnderKernel(t.nz, t.time, c),
     diff |-> UnderKernel(t.diff, t.time, c)]

\* x + identity, F.sum(F.stack(...)): not zero where a summand is not zero
SumOf(ts) ==
    [time |-> ts[1].time, nz |-> UNION {ts[j].nz : j \in 1..Len(ts)},
     diff |-> UNION {ts[j].diff : j \in 1..Len(ts)}]

\* the samples of every tensor, in the order the tensors are made; the k-th
\* operation makes tensor Len(env), and the ci-th MaskConv1d call is next
RECURSIVE EvalOps(_, _, _, _, _)
EvalOps(ops, calls, k, ci, env) ==
    IF k > Len(ops) THEN env
    ELSE LET o == ops[k]
             a == env[o.in[1] + 1]
             v == IF o.op = "mask" THEN Masked(a, MaskLens(calls[ci].len_in))
                  ELSE IF o.op = "conv" THEN Convolve(a, o.arg)
                  ELSE IF o.op \in {"stack", "add"}
                  THEN SumOf([j \in 1..Len(o.in) |-> env[o.in[j] + 1]])
                  ELSE a
         IN  EvalOps(ops, calls, k + 1, IF o.op = "conv" THEN ci + 1 ELSE ci,
                     Append(env, v))

\* The trace after block l was applied with result r
Traced(r, l) ==
    LET is_none == x_len.kind # "tuple"
        ops == LayerOps(l, trace.x, is_none, trace.y, trace.fresh)
    IN  trace' = IF r.ok
                 THEN [x |-> ChainOut(ops, trace.x),
                       y |-> LayerY(l, trace.x, is_none, trace.y),
                       inputs |-> Append(trace.inputs, trace.x),
                       ops |-> ops,
                       fresh |-> trace.fresh + Len(ops),
                       val |-> EvalOps(ops, r.calls, 1, 1, trace.val)]
                 ELSE [trace EXCEPT !.ops = <<>>]

(***************************************************************************)
(* Jasper.__call__, block by block.                                        *)
(***************************************************************************)
\* The caller passes a (batch, features, time) tensor and a length vector: the
\* last element of the batch has any length, the others fill the tensor
ForwardCall ==
    /\ pc = "built"
    /\ \E T \in 1..MaxT, last \in 0..MaxLen :
         entry' = [x |-> [batch |-> Batch, channels |-> AudioFeatures, time |-> T],
                   x_len |-> Vec([b \in 1..Batch |-> IF b = Batch THEN last ELSE T])]
    /\ x' = entry'.x
    /\ x_len' = entry'.x_len
    /\ layer' = 0
    /\ convs' = <<>>
    /\ result' = <<>>
    /\ trace' = [NoTrace EXCEPT !.val = <<Samples(entry'.x.time, entry'.x_len.v)>>]
    /\ pc' = "features"
    /\ UNCHANGED <<port, args, net, raised, io>>
    /\ UNCHANGED convVars

\* What a block call leaves behind
Step(r, next_pc) ==
    /\ convs' = r.calls
    /\ IF r.ok
       THEN x' = r.x /\ x_len' = r.x_len /\ layer' = layer + 1 /\ pc' = next_pc
            /\ raised' = raised
       ELSE x' = x /\ x_len' = x_len /\ layer' = layer /\ pc' = "forward_raised"
            /\ raised' = r.err
    /\ UNCHANGED <<port, args, net, io, entry, result>>
    /\ UNCHANGED convVars

NextBlock == net.features[layer + 1]

InFeatures == pc = "features" /\ layer < Len(net.features)

\* self.features: the stem
InitBlockCall ==
    /\ InFeatures
    /\ NextBlock.cls \in {"MaskConvBlock1d", "DwsConvBlock1d"}
    /\ Step(BlockCall(port, NextBlock, x, x_len), "features")
    /\ Traced(BlockCall(port, NextBlock, x, x_len), NextBlock)

\* self.features: a residual unit
JasperUnitCall ==
    /\ InFeatures
    /\ NextBlock.cls = "JasperUnit"
    /\ Step(JasperUnitCallOn(port, NextBlock, x, x_len), "features")
    /\ Traced(JasperUnitCallOn(port, NextBlock, x, x_len), NextBlock)

\* self.features: the final block
JasperFinalBlockCall ==
    /\ InFeatures
    /\ NextBlock.cls = "JasperFinalBlock"
    /\ Step(JasperFinalBlockCallOn(port, NextBlock, x, x_len), "features")
    /\ Traced(JasperFinalBlockCallOn(port, NextBlock, x, x_len), NextBlock)

\* x = self.output(x); return x, x_len
OutputCall ==
    /\ pc = "features"
    /\ layer = Len(net.features)
    /\ LET r == OutputCallOn(net.output, x)
       IN  IF r.ok
           THEN /\ x' = r.x
                /\ result' = [x |-> r.x, x_len |-> x_len]
                /\ pc' = "forward_returned"
                /\ raised' = raised
           ELSE /\ x' = x
                /\ result' = result
                /\ pc' = "forward_raised"
                /\ raised' = r.err
    /\ convs' = <<>>
    /\ LET ops == Chain(ConvSteps(<<net.output>>), Part("output", 1), trace.x, trace.fresh)
       IN  trace' = IF OutputCallOn(net.output, x).ok
                    THEN [trace EXCEPT !.x = ChainOut(ops, trace.x), !.ops = ops,
                                       !.inputs = Append(trace.inputs, trace.x),
                                       !.fresh = trace.fresh + Len(ops),
                                       !.val = EvalOps(ops, <<>>, 1, 1, trace.val)]
                    ELSE [trace EXCEPT !.ops = <<>>]
    /\ UNCHANGED <<port, args, net, io, entry, x_len, layer>>
    /\ UNCHANGED convVars

(***************************************************************************)
(* The named factories, and the calls of the main specification.           *)
(***************************************************************************)
Factory(name, model_type, version, use_dw, classes) ==
    [name |-> name, model_type |-> model_type, version |-> version, use_dw |-> use_dw,
     classes |-> classes]

JasperFactories ==
    {Factory("jasper5x3", "jasper", <<"5", "x", "3">>, FALSE, DefaultClasses),
     Factory("jasper10x4", "jasper", <<"1", "0", "x", "4">>, FALSE, DefaultClasses),
     Factory("jasper10x5", "jasper", <<"1", "0", "x", "5">>, FALSE, DefaultClasses)}

QuartzNetFactories ==
    {Factory("quartznet5x5_en_ls", "quartznet", <<"5", "x", "5">>, TRUE, 29),
     Factory("quartznet15x5_en", "quartznet", <<"1", "5", "x", "5">>, TRUE, 29),
     Factory("quartznet15x5_en_nr", "quartznet", <<"1", "5", "x", "5">>, TRUE, 29),
     Factory("quartznet15x5_fr", "quartznet", <<"1", "5", "x", "5">>, TRUE, 43),
     Factory("quartznet15x5_de", "quartznet", <<"1", "5", "x", "5">>, TRUE, 32),
     Factory("quartznet15x5_it", "quartznet", <<"1", "5", "x", "5">>, TRUE, 39),
     Factory("quartznet15x5_es", "quartznet", <<"1", "5", "x", "5">>, TRUE, 36),
     Factory("quartznet15x5_ca", "quartznet", <<"1", "5", "x", "5">>, TRUE, 39),
     Factory("quartznet15x5_pl", "quartznet", <<"1", "5", "x", "5">>, TRUE, 34),
     Factory("quartznet15x5_ru", "quartznet", <<"1", "5", "x", "5">>, TRUE, 35)}

\* The Chainer port has the Jasper factories; the TensorFlow port has both
Factories(p) == IF p = "chainer" THEN JasperFactories ELSE JasperFactories \cup QuartzNetFactories

DefaultFormat(p) == IF p = "tf" THEN "channels_last" ELSE "channels_first"

Init ==
    /\ port \in Ports
    /\ pc = "get_jasper"
    /\ \/ \E f \in Factories(port), pre \in BOOLEAN :
            args = [factory |-> f.name, model_type |-> f.model_type, version |-> f.version,
                    use_dw |-> f.use_dw, use_dr |-> FALSE, model_name |-> Str(f.name),
                    pretrained |-> pre, in_channels |-> AudioFeatures, classes |-> f.classes,
                    data_format |-> DefaultFormat(port)]
       \/ \E b \in (-MaxBelowZero)..MaxBlocks, r \in 0..MaxRepeat, t \in ModelTypes :
            \E dw \in BOOLEAN, dr \in BOOLEAN :
               args = [factory |-> "get_jasper", model_type |-> t,
                       version |-> SignedNumeral(b) \o <<"x">> \o Numeral(r),
                       use_dw |-> dw, use_dr |-> dr, model_name |-> None,
                       pretrained |-> FALSE, in_channels |-> AudioFeatures,
                       classes |-> DefaultClasses, data_format |-> DefaultFormat(port)]
    /\ net = <<>>
    /\ raised = NoError
    /\ io = <<>>
    /\ IdleConv
    /\ IdleForward

Next ==
    \/ GetJasper
    \/ ForwardCall
    \/ InitBlockCall
    \/ JasperUnitCall
    \/ JasperFinalBlockCall
    \/ OutputCall

Spec == Init /\ [][Next]_vars

(***************************************************************************)
(* Claims about one MaskConv1d call (checked under SpecConv).              *)
(***************************************************************************)
\* q = floor(n / s) + 1, stated without division: s*(q-1) <= n < s*q
IsFloorPlusOne(q, n, s) == s * (q - 1) <= n /\ n < s * q

\* C1: with masking enabled, a MaskConv1d call that returns gives every batch
\* element the length L' = floor((L + 2P - D(K-1) - 1) / S) + 1, in both ports.
C1_LengthFormula ==
    (pc = "returned" /\ conv.use_mask) =>
        \A b \in 1..Batch :
            IsFloorPlusOne(y_len[b],
                           x_len_arg[b] + 2 * conv.pad - conv.dilate * (conv.ksize - 1) - 1,
                           conv.stride)

\* C1 witness: a dilated, strided call whose numerator is negative for one batch
\* element (so that flooring shows) and zero for the other.
C1_Witness ==
    /\ pc = "returned" /\ conv.use_mask
    /\ conv.ksize = 3 /\ conv.dilate = 2 /\ conv.stride = 2 /\ conv.pad = 1
    /\ x_len_arg = <<0, 3>>
    /\ y_len = <<-1, 1>>

\* C2: the tensor handed to the convolution is the input with every element at
\* time t >= x_len[b] set to zero and every element at t < x_len[b] unchanged,
\* for every batch element and channel, x_len being the length passed in.
C2_MaskBeforeConv ==
    (pc \in {"returned", "conv_raised"} /\ conv.use_mask) =>
        \A b \in 1..Batch, c \in 1..Chans, tm \in 0..(TimeDim(x_in, conv.data_format) - 1) :
            At(x_masked, conv.data_format, b, c, tm) =
                IF tm < x_len_arg[b] THEN At(x_in, conv.data_format, b, c, tm) ELSE 0

\* C2 witness: a call whose updated length differs from the length passed in,
\* with one batch element cut inside the tensor and the other left whole.
C2_Witness ==
    /\ pc = "returned" /\ conv.use_mask
    /\ TimeDim(x_in, conv.data_format) = 3
    /\ x_len_arg = <<2, 3>>
    /\ y_len = <<1, 2>>
    /\ At(x_masked, conv.data_format, 1, 2, 1) # 0
    /\ At(x_masked, conv.data_format, 1, 2, 2) = 0
    /\ At(x_masked, conv.data_format, 2, 1, 2) # 0

(***************************************************************************)
(* Claims about get_jasper (checked under SpecBuild).                      *)
(***************************************************************************)
\* A version string of the form <digits>x<digits>, stated on the characters
IsBlocksXRepeat(v) ==
    \E i \in 2..(Len(v) - 1) :
        /\ v[i] = "x"
        /\ \A j \in (1..Len(v)) \ {i} : IsDigit(v[j])

\* The number written before the x of such a string
BlocksOf(v) ==
    LET i == CHOOSE k \in 1..Len(v) : v[k] = "x"
    IN  DecimalValue(SubSeq(v, 1, i - 1))

Count(list, a) == Cardinality({q \in 1..Len(list) : list[q] = a})

Built == pc = "built" /\ net # <<>>

\* C6 as the specification states it: for blocks a positive multiple of 5 the
\* three schedule lists have length exactly 8.
C6_LengthAlways8 ==
    (Built /\ BlocksOf(args.version) > 0 /\ BlocksOf(args.version) % 5 = 0) =>
        /\ Len(net.channels) = 8
        /\ Len(net.ksizes) = 8
        /\ Len(net.dropout_rates) = 8

\* C6 amended: for blocks a positive multiple of 5 the three schedule lists have
\* length 3 + blocks (8 only for blocks = 5): the stem once, each of the five
\* main-stage entries blocks/5 times, the two final entries once.  (The kernel
\* sizes tell the stages apart: the stem and the first main stage share one.)
C6_LengthIsBlocksPlus3 ==
    (Built /\ BlocksOf(args.version) > 0 /\ BlocksOf(args.version) % 5 = 0) =>
        LET m == BlocksOf(args.version) \div 5
            kt == ksizes_per_stage(args.model_type)
        IN  /\ Len(net.channels) = 3 + BlocksOf(args.version)
            /\ Len(net.ksizes) = 3 + BlocksOf(args.version)
            /\ Len(net.dropout_rates) = 3 + BlocksOf(args.version)
            /\ Count(net.ksizes, kt[1]) = 1 + m
            /\ \A i \in 3..6 : Count(net.ksizes, kt[i]) = m
            /\ Count(net.ksizes, kt[7]) = 1
            /\ Count(net.ksizes, kt[8]) = 1

\* C6 witness: a 15-block network, whose lists hold 18 entries.
C6_Witness ==
    /\ Built /\ BlocksOf(args.version) = 15
    /\ Len(net.channels) = 18
    /\ Count(net.ksizes, ksizes_per_stage(args.model_type)[4]) = 3

\* The list built from an 8-entry table with the middle entries repeated m times
IsReplicated(list, table, m) ==
    /\ Len(list) = 3 + 5 * m
    /\ list[1] = table[1]
    /\ \A i \in 2..6 : \A j \in 1..m : list[1 + (i - 2) * m + j] = table[i]
    /\ list[Len(list) - 1] = table[7]
    /\ list[Len(list)] = table[8]

\* C7: main_stage_repeat = blocks // 5, and each of the three lists is its family
\* table with the stem and the two final entries once and every middle entry
\* main_stage_repeat times in a row, in table order.
C7_Replication ==
    Built =>
        LET m == BlocksOf(args.version) \div 5
        IN  /\ IsReplicated(net.channels, channels_per_stage(args.model_type), m)
            /\ IsReplicated(net.ksizes, ksizes_per_stage(args.model_type), m)
            /\ IsReplicated(net.dropout_rates, dropout_rates_per_stage(args.model_type), m)

\* C7 witness: blocks = 11, not a multiple of 5, gives two copies of each middle
\* entry, side by side.
C7_Witness ==
    /\ Built /\ BlocksOf(args.version) = 11 /\ args.model_type = "jasper"
    /\ net.channels = <<256, 256, 256, 384, 384, 512, 512, 640, 640, 768, 768, 896, 1024>>
    /\ net.dropout_rates = <<2, 2, 2, 2, 2, 2, 2, 3, 3, 3, 3, 4, 4>>

Returned == pc # "get_jasper"

NoModel == pc = "raised" /\ net = <<>>

\* C8: for a family name other than jasper and quartznet, get_jasper raises
\* ValueError and returns no model, whatever the other arguments are.
C8_UnknownFamilyRaises ==
    (Returned /\ args.model_type \notin {"jasper", "quartznet"}) =>
        NoModel /\ raised.type = "ValueError" /\ io = <<>>

\* C8 witness: an unknown family with a well-formed version is refused at the
\* family test.
C8_Witness ==
    /\ Returned /\ args.model_type = "wav2letter" /\ args.version = <<"5", "x", "1">>
    /\ NoModel /\ raised = [type |-> "ValueError", at |-> "model_type"]

\* C9: with pretrained set and model_name None or empty, get_jasper raises
\* ValueError before any I/O: neither get_model_file nor the loader is called
\* and no model is returned.
C9_MissingNameRaisesBeforeIO ==
    (Returned /\ args.pretrained /\ (args.model_name = None \/ args.model_name = Str(""))) =>
        NoModel /\ raised.type = "ValueError" /\ io = <<>>

\* C9 witness: an empty name on an otherwise valid call is refused at the name
\* test.
C9_Witness ==
    /\ Returned /\ args.pretrained /\ args.model_name = Str("")
    /\ NoModel /\ raised = [type |-> "ValueError", at |-> "model_name"] /\ io = <<>>

\* C10: a version string that is not two integer fields around one x makes
\* get_jasper raise at construction and return no model, for every family name.
C10_MalformedVersionRaises ==
    (Returned /\ ~IsBlocksXRepeat(args.version)) =>
        NoModel /\ raised.type = "ValueError" /\ raised.at \in {"int", "unpack"} /\ io = <<>>

\* C10 witness: an empty field, for a known family.
C10_Witness ==
    /\ Returned /\ args.version = <<"x", "5">> /\ args.model_type = "quartznet"
    /\ NoModel /\ raised = [type |-> "ValueError", at |-> "int"]

(***************************************************************************)
(* Claims about a forward call of a built network (checked under Spec).    *)
(***************************************************************************)
Entered == entry # <<>>

EntryWithinTime == Entered /\ \A b \in 1..Batch : entry.x_len.v[b] <= entry.x.time

LensOf(lv) == IF lv.kind = "vec" THEN {lv.v[b] : b \in DOMAIN lv.v} ELSE {lv.v}

HasUnits == net # <<>> /\ Len(net.channels) > 3

\* C3: when every entry length is at most the input's time dimension, then after
\* every masked convolution of the network (the stem, the identity projections
\* and body blocks of a unit, both convolutions of the final block) each
\* threaded length is at most the time dimension of the tensor it comes with.
C3_LengthWithinTime ==
    EntryWithinTime =>
        \A i \in 1..Len(convs) :
            \A l \in LensOf(convs[i].x_len) : l <= convs[i].x.time

\* a unit has run its identity projection and its body on a full-length batch
\* element of an odd-length input, and the stem has halved both
C3_Witness ==
    /\ EntryWithinTime /\ HasUnits /\ port = "tf"
    /\ entry.x.time = 3 /\ entry.x_len.v[1] = 3 /\ entry.x_len.v[2] = 1
    /\ pc = "features" /\ layer = 2 /\ Len(convs) >= 2
    /\ \A i \in 1..Len(convs) : convs[i].x.time = 2 /\ convs[i].x_len.kind = "vec"
                                  /\ convs[i].x_len.v = <<2, 1>>

IsFactoryCall == args.factory # "get_jasper"

\* C4: a network of a named factory, built with 64 input features, returns from
\* a forward call on B sequences of time dimension T logits of batch B, of as
\* many channels as the model has classes (29 for the Jasper factories) and of
\* time dimension floor(T/2) or floor(T/2) + 1; the call does not raise.
C4_FactoryLogitsShape ==
    IsFactoryCall =>
        /\ pc # "forward_raised"
        /\ pc = "forward_returned" =>
              /\ net.in_size = AudioFeatures
              /\ result.x.batch = entry.x.batch
              /\ result.x.channels = args.classes
              /\ args.model_type = "jasper" => result.x.channels = DefaultClasses
              /\ result.x.time \in {FloorDiv(entry.x.time, 2), FloorDiv(entry.x.time, 2) + 1}

\* the French QuartzNet returns 43 channels and 2 frames for 3
C4_Witness ==
    /\ pc = "forward_returned" /\ args.factory = "quartznet15x5_fr"
    /\ entry.x = [batch |-> Batch, channels |-> AudioFeatures, time |-> 3]
    /\ result.x = [batch |-> Batch, channels |-> 43, time |-> 2]

\* C5: whatever configuration get_jasper accepted, dense-residual or not, the
\* second value a forward call returns is the per-batch-element length vector
\* (never the dense-residual tuple, never anything else).
C5_ReturnsLengthVector ==
    pc = "forward_returned" =>
        result.x_len.kind = "vec" /\ Len(result.x_len.v) = entry.x.batch

\* C5, as far as it holds: with at least one residual unit the final block finds
\* the tuple and hands on the vector in it.
C5_VectorWhenThereAreUnits ==
    (pc = "forward_returned" /\ HasUnits) =>
        result.x_len.kind = "vec" /\ Len(result.x_len.v) = entry.x.batch

C5_Witness ==
    /\ pc = "forward_returned" /\ HasUnits /\ net.use_dr
    /\ result.x_len = Vec(<<2, 1>>)

(***************************************************************************)
(* The trainable parameters of a built network: what count_params (Chainer)*)
(* and the sum over trainable_weights (TensorFlow) add up.                 *)
(***************************************************************************)
RECURSIVE SumSeq(_)
SumSeq(ns) == IF ns = <<>> THEN 0 ELSE ns[1] + SumSeq(Tail(ns))

\* (a variant that takes a grouped convolution for a full one, for comparison)
ConvWeights_Ungrouped(c) == c.out_channels * c.in_channels * c.ksize

\* W of a convolution: (out_channels, in_channels / groups, ksize); the masked
\* convolutions are built with use_bias=False
ConvWeights(c) == c.out_channels * FloorDiv(c.in_channels, c.groups) * c.ksize

\* gamma and beta of L.BatchNormalization(size=out_channels)
BatchNormParams(blk) ==
    IF blk.use_bn THEN 2 * blk.convs[Len(blk.convs)].out_channels ELSE 0

\* a MaskConvBlock1d or a DwsConvBlock1d
BlockParams(blk) ==
    SumSeq([i \in 1..Len(blk.convs) |-> ConvWeights(blk.convs[i])]) + BatchNormParams(blk)

\* a JasperUnit, a JasperFinalBlock or the stem
LayerParams(l) ==
    IF l.cls = "JasperUnit"
    THEN SumSeq([j \in 1..Len(l.identity_block) |-> BlockParams(l.identity_block[j])])
         + SumSeq([i \in 1..Len(l.body) |-> BlockParams(l.body[i])])
    ELSE IF l.cls = "JasperFinalBlock"
    THEN BlockParams(l.conv1) + BlockParams(l.conv2)
    ELSE BlockParams(l)

\* (a variant that forgets the bias of the output layer, for comparison)
OutputParams_NoBias(c) == ConvWeights(c)

\* self.output = conv1d1(..., use_bias=True)
OutputParams(c) == ConvWeights(c) + c.out_channels

count_params(n) ==
    SumSeq([i \in 1..Len(n.features) |-> LayerParams(n.features[i])]) + OutputParams(n.output)

(***************************************************************************)
(* Claims about the size of the built networks (checked under Spec).       *)
(***************************************************************************)
HasNet == net # <<>>

IsPlainJasper(version) ==
    /\ HasNet /\ args.model_type = "jasper" /\ args.version = version
    /\ ~net.use_dw /\ ~net.use_dr
    /\ net.in_size = AudioFeatures /\ net.classes = DefaultClasses

\* C11: with 64 input features, 29 classes, no depthwise blocks and no dense
\* residual, the Jasper network has 107681053 trainable parameters for 5x3,
\* 261393693 for 10x4 and 322286877 for 10x5.
C11_JasperWeightCount ==
    /\ IsPlainJasper(<<"5", "x", "3">>) => count_params(net) = 107681053
    /\ IsPlainJasper(<<"1", "0", "x", "4">>) => count_params(net) = 261393693
    /\ IsPlainJasper(<<"1", "0", "x", "5">>) => count_params(net) = 322286877

C11_Witness ==
    /\ pc = "built" /\ args.factory = "jasper10x4" /\ IsPlainJasper(<<"1", "0", "x", "4">>)
    /\ Len(net.features) = 12 /\ count_params(net) = 261393693

IsQuartzNet(version, classes) ==
    /\ HasNet /\ args.model_type = "quartznet" /\ args.version = version
    /\ net.use_dw /\ ~net.use_dr
    /\ net.in_size = AudioFeatures /\ net.classes = classes

PretrainedWithName ==
    /\ pc # "get_jasper"
    /\ args.pretrained /\ ~MissingModelName(args.model_name)
    /\ get_jasper(args).ok

\* C13: a get_jasper call with pretrained=True and a non-empty model_name (as
\* the named factories make it) builds the net, asks get_model_file for the
\* file, loads it and returns the net, in each port; before the load call it
\* raises nothing of its own (only the model store or the loader may fail).
C13_PretrainedReachesLoad ==
    PretrainedWithName =>
        /\ Len(io) >= 1 /\ io[1] = "get_model_file"
        /\ raised.type \in {"", "external"}
        /\ pc \in {"built", "features", "forward_returned", "forward_raised"} =>
              (HasNet /\ Len(io) = 2)

(***************************************************************************)
(* Claims about the residual units (checked under Spec).                   *)
(***************************************************************************)
\* a residual unit has just returned: it is block `layer` of the features
AfterUnit ==
    /\ pc = "features" /\ layer >= 1
    /\ net.features[layer].cls = "JasperUnit"

TheUnit == net.features[layer]

\* the number of the tensor the unit was given
UnitInput == trace.inputs[layer]

OpsBy(part, k) == SelectSeq(trace.ops, LAMBDA o : o.by = Part(part, k))

OpNames(ops) == [k \in DOMAIN ops |-> ops[k].op]

OpsNamed(name) == SelectSeq(trace.ops, LAMBDA o : o.op = name)

\* the operation that made tensor t, if the unit made it
MadeBy(t) == SelectSeq(trace.ops, LAMBDA o : o.out = t)

\* branch j is the j-th 1x1 projection of the unit and its normalization, and
\* nothing else, applied to tensor t
IsProjectionOf(j, t) ==
    LET ops == OpsBy("identity", j)
    IN  /\ OpNames(ops) = <<"mask", "conv", "bn">>
        /\ ops[1].in = <<t>>
        /\ ops[2].in = <<ops[1].out>> /\ ops[3].in = <<ops[2].out>>
        /\ ops[2].arg = TheUnit.identity_block[j].convs[1]
        /\ ops[2].arg.ksize = 1 /\ ops[2].arg.stride = 1
        /\ ops[2].arg.out_channels = x.channels

\* C14: in dense-residual mode the identity of the i-th residual unit is the
\* elementwise sum of exactly i tensors; the j-th is the unit's j-th 1x1
\* projection and normalization (no activation, no dropout) of the j-th
\* accumulated tensor, which is the input of residual unit j; every entry is
\* used once and by its own projection only.
C14_DenseIdentity ==
    (AfterUnit /\ net.use_dr) =>
        LET i == layer - 1
            stack == OpsNamed("stack")
            sum == OpsNamed("sum")
            add == OpsNamed("add")
        IN  /\ Len(TheUnit.identity_block) = i
            /\ Len(stack) = 1 /\ Len(sum) = 1 /\ Len(add) = 1
            /\ Len(stack[1].in) = i
            /\ \A j \in 1..i :
                  /\ IsProjectionOf(j, trace.inputs[j + 1])
                  /\ stack[1].in[j] = OpsBy("identity", j)[3].out
            /\ \A o \in {trace.ops[k] : k \in 1..Len(trace.ops)} :
                  o.by.part = "identity" => o.by.k \in 1..i
            /\ sum[1].in = <<stack[1].out>>
            /\ add[1].in[2] = sum[1].out

\* the third unit of a dense-residual network has summed three projections,
\* of the inputs of units 1, 2 and 3
C14_Witness ==
    /\ AfterUnit /\ net.use_dr /\ layer = 4
    /\ Len(OpsNamed("stack")[1].in) = 3
    /\ trace.inputs = <<0, trace.inputs[2], trace.inputs[3], trace.inputs[4]>>
    /\ \A j \in 1..3 : OpsBy("identity", j)[1].in = <<trace.inputs[j + 1]>>
    /\ trace.inputs[2] < trace.inputs[3] /\ trace.inputs[3] < trace.inputs[4]

\* a dense-residual unit is applied in this step and returns
DenseUnitStep ==
    /\ pc = "features" /\ pc' = "features" /\ layer' = layer + 1
    /\ net.features[layer'].cls = "JasperUnit" /\ net.use_dr

\* what such a step does to the two lists of the tuple
C15_Step ==
    DenseUnitStep =>
        /\ x_len'.kind = "tuple"
        /\ IF x_len.kind = "tuple"
           THEN /\ x_len'.y = x_len.y \o <<x>>
                /\ x_len'.y_len = x_len.y_len \o <<x_len.x_len>>
                /\ trace'.y = trace.y \o <<trace.x>>
           ELSE /\ layer = 1
                /\ x_len'.y = <<x>>
                /\ x_len'.y_len = <<x_len>>
                /\ trace'.y = <<trace.x>>
        /\ Len(x_len'.y) = layer /\ Len(x_len'.y_len) = layer /\ Len(trace'.y) = layer

\* C15: in dense-residual mode the accumulator only grows at its end: the first
\* unit seeds both lists with its own input tensor and input length, each later
\* unit appends exactly its own input tensor and input length and leaves the
\* earlier entries where and as they were; the two lists are equally long, and
\* after unit i both hold i entries.
C15_AppendOnly == [][C15_Step]_vars

\* after the third unit: three tensors and three lengths, in the order of the units
C15_Witness ==
    /\ AfterUnit /\ net.use_dr /\ layer = 4 /\ args.model_type = "jasper"
    /\ x_len.kind = "tuple" /\ Len(x_len.y) = 3 /\ Len(x_len.y_len) = 3
    /\ x_len.y[1].channels = 256 /\ x_len.y[3].channels = 384
    /\ trace.y = <<trace.inputs[2], trace.inputs[3], trace.inputs[4]>>
    /\ x_len.y_len[3] = Vec(<<2, 1>>)

\* C16: without dense-residual mode the identity of every residual unit is one
\* masked 1x1 projection and its normalization (no activation, no dropout) of
\* the unit's own input and of nothing else, and the length threaded between
\* the blocks is a plain length, never the tuple.
C16_PlainIdentity ==
    /\ (HasNet /\ ~net.use_dr /\ Entered) => x_len.kind # "tuple"
    /\ (AfterUnit /\ ~net.use_dr) =>
          /\ Len(TheUnit.identity_block) = 1
          /\ IsProjectionOf(1, UnitInput)
          /\ TheUnit.identity_block[1].convs[1].use_mask
          /\ ~TheUnit.identity_block[1].activate /\ ~TheUnit.identity_block[1].use_dropout
          /\ \A k \in 1..Len(trace.ops) :
                /\ trace.ops[k].by.part = "identity" => trace.ops[k].by.k = 1
                /\ trace.ops[k].op \notin {"stack", "sum"}
          /\ OpsNamed("add")[1].in[2] = OpsBy("identity", 1)[3].out

C16_Witness ==
    /\ AfterUnit /\ ~net.use_dr /\ layer = 3 /\ args.factory = "quartznet5x5_en_ls"
    /\ x_len = Vec(<<2, 1>>)
    /\ OpsBy("identity", 1)[1].in = <<trace.inputs[3]>>
    /\ trace.inputs[3] > trace.inputs[2]

\* the place of the first operation of that name among those of the unit
IndexOf(name) == CHOOSE k \in 1..Len(trace.ops) : trace.ops[k].op = name

\* C17: in every residual unit the identity and the body are computed from the
\* unit's input, then the identity is added to the body's output, then the
\* activation is applied to the sum, then dropout when the stage's dropout rate
\* is not zero; between the normalization of the last body convolution and the
\* addition there is no activation and no dropout.
C17_UnitOrder ==
    AfterUnit =>
        LET ops == trace.ops
            n == Len(ops)
            body == SelectSeq(ops, LAMBDA o : o.by.part = "body")
            a == IndexOf("add")
        IN  /\ Len(OpsNamed("add")) = 1
            \* both branches start from the unit's input
            /\ \E k \in 1..n : ops[k].by.part = "identity" /\ ops[k].in = <<UnitInput>>
            /\ body # <<>> => body[1].in = <<UnitInput>>
            \* both branches are done when the addition is made
            /\ \A k \in 1..n : ops[k].by.part \in {"identity", "body"} => k < a
            \* the sum is of the body's output, as its normalization left it
            /\ IF body = <<>> THEN ops[a].in[1] = UnitInput
               ELSE /\ ops[a].in[1] = body[Len(body)].out
                    /\ body[Len(body)].op = "bn"
                    /\ body[Len(body)].by.k = Len(TheUnit.body)
            \* and of the identity: the projection, or the sum of the projections
            /\ LET made == MadeBy(ops[a].in[2])
               IN  /\ Len(made) = 1
                   /\ made[1].by.part = "identity" \/ made[1].op = "sum"
            \* then the activation, then the dropout if there is one
            /\ a + 1 <= n /\ ops[a + 1].op = "relu" /\ ops[a + 1].in = <<ops[a].out>>
            /\ IF TheUnit.dropout_rate # 0
               THEN /\ n = a + 2 /\ ops[n].op = "dropout" /\ ops[n].in = <<ops[a + 1].out>>
               ELSE n = a + 1
            /\ trace.x = ops[n].out

\* a unit with dropout (Jasper) and three body blocks
C17_Witness ==
    /\ AfterUnit /\ args.factory = "jasper5x3" /\ layer = 2
    /\ OpNames(SelectSeq(trace.ops, LAMBDA o : o.by.part = "unit")) = <<"add", "relu", "dropout">>
    /\ OpNames(OpsBy("body", 3)) = <<"mask", "conv", "bn">>
    /\ OpNames(OpsBy("body", 1)) = <<"mask", "conv", "bn", "relu", "dropout">>

(***************************************************************************)
(* Arrays as the frameworks keep them: a shape and the elements in         *)
(* row-major order.  reshape keeps the order of the elements; transpose    *)
(* moves them.  Indices are from 0 here, as in the source.                 *)
(***************************************************************************)
RECURSIVE Prod(_)
Prod(ns) == IF ns = <<>> THEN 1 ELSE ns[1] * Prod(Tail(ns))

StrideOf(shape, k) == Prod(SubSeq(shape, k + 1, Len(shape)))

Unravel(f, shape) == [k \in 1..Len(shape) |-> (f \div StrideOf(shape, k)) % shape[k]]

Ravel(idx, shape) == SumSeq([k \in 1..Len(shape) |-> idx[k] * StrideOf(shape, k)])

\* the array of a tensor x[i][j][k]
FromNested(t) ==
    LET shape == <<Len(t), Dim1(t), Dim2(t)>>
    IN  [shape |-> shape,
         data |-> [f \in 1..Prod(shape) |->
                      LET idx == Unravel(f - 1, shape)
                      IN  t[idx[1] + 1][idx[2] + 1][idx[3] + 1]]]

ToNested(a) ==
    [i \in 1..a.shape[1] |-> [j \in 1..a.shape[2] |-> [k \in 1..a.shape[3] |->
        a.data[Ravel(<<i - 1, j - 1, k - 1>>, a.shape) + 1]]]]

\* F.reshape / tf.reshape
reshape(a, shape) == [shape |-> shape, data |-> a.data]

\* tf.transpose(x, perm): axis k of the result is axis perm[k] of x (perm from 1 here)
transpose(a, perm) ==
    LET shape == [k \in 1..Len(perm) |-> a.shape[perm[k]]]
    IN  [shape |-> shape,
         data |-> [f \in 1..Prod(shape) |->
                      LET idx == Unravel(f - 1, shape)
                          old == [ax \in 1..Len(perm) |->
                                     idx[CHOOSE k \in 1..Len(perm) : perm[k] = ax]]
                      IN  a.data[Ravel(old, a.shape) + 1]]]

\* F.swapaxes(x, axis1=1, axis2=2) of a 4-axis array (axes from 0 in the source)
swapaxes12(a) == transpose(a, <<1, 3, 2, 4>>)

\* (a variant that reshapes without swapping the axes, for comparison)
ChannelShuffle1d_NoSwap(p, t, groups, fmt) == t

\* ChannelShuffle1d.__call__ (Chainer) / ChannelShuffle1d.call (TensorFlow),
\* when the channels divide into the groups
ChannelShuffle1d(p, t, groups, fmt) ==
    IF p = "chainer"
    THEN LET batch == Len(t)
             channels == Dim1(t)
             seq_len == Dim2(t)
             channels_per_group == FloorDiv(channels, groups)
         IN  ToNested(reshape(swapaxes12(reshape(FromNested(t),
                 <<batch, groups, channels_per_group, seq_len>>)),
                 <<batch, channels, seq_len>>))
    ELSE IF fmt = "channels_first"
    THEN LET channels == Dim1(t)
             seq_len == Dim2(t)
             channels_per_group == FloorDiv(channels, groups)
         IN  ToNested(reshape(transpose(reshape(FromNested(t),
                 <<Len(t), groups, channels_per_group, seq_len>>), <<1, 3, 2, 4>>),
                 <<Len(t), channels, seq_len>>))
    ELSE LET seq_len == Dim1(t)
             channels == Dim2(t)
             channels_per_group == FloorDiv(channels, groups)
         IN  ToNested(reshape(transpose(reshape(FromNested(t),
                 <<Len(t), seq_len, groups, channels_per_group>>), <<1, 2, 4, 3>>),
                 <<Len(t), seq_len, channels>>))

ChannelsOf(t, fmt) == IF fmt = "channels_first" THEN Dim1(t) ELSE Dim2(t)

(***************************************************************************)
(* One call of a ChannelShuffle1d, of a DwsConvBlock1d or of one of its    *)
(* MaskConv1d layers.                                                      *)
(***************************************************************************)
\* a tensor of pairwise distinct entries
ShuffleInput(fmt, chans, T) ==
    IF fmt = "channels_first"
    THEN [b \in 1..Batch |-> [c \in 1..chans |-> [i \in 1..T |->
             i + T * ((c - 1) + chans * (b - 1))]]]
    ELSE [b \in 1..Batch |-> [i \in 1..T |-> [c \in 1..chans |->
             i + T * ((c - 1) + chans * (b - 1))]]]

DropoutRates == {0, 2}

InitBlock ==
    /\ port \in Ports
    /\ \/ /\ pc = "ChannelShuffle1d"
          /\ \E g \in 1..MaxShuffleChans, fmt \in Formats(port) :
                conv = [cls |-> "ChannelShuffle1d", groups |-> g, data_format |-> fmt]
          /\ \E chans \in 1..MaxShuffleChans, T \in 1..MaxT :
                x_in = ShuffleInput(conv.data_format, chans, T)
          /\ x_arg = NoTensor
          /\ x_len_arg = <<>>
          /\ IdleForward
       \/ /\ pc = "MaskConv1d"
          /\ \E k \in 1..MaxK, s \in 1..MaxS, d \in 1..MaxD, p \in 0..MaxP :
             \E fmt \in Formats(port), kind \in Kinds(port) :
                conv = [ksize |-> k, stride |-> s, pad |-> p, dilate |-> d, use_mask |-> TRUE,
                        data_format |-> fmt, x_kind |-> kind]
          /\ \E T \in 1..MaxT : x_in = InputTensor(conv.data_format, T, 1)
          /\ x_arg = x_in
          /\ \E last \in 0..MaxLen :
                x_len_arg = [b \in 1..Batch |-> IF b = Batch THEN last
                                                ELSE TimeDim(x_in, conv.data_format)]
          /\ IdleForward
       \/ /\ pc = "DwsConvBlock1d"
          /\ \E g \in 1..MaxGroups, k \in 1..MaxK, p \in 0..MaxP :
             \E i \in 1..MaxShuffleChans, o \in 1..MaxShuffleChans :
             \E act \in BOOLEAN, rate \in DropoutRates :
                /\ i % g = 0 /\ o % g = 0
                /\ conv = DwsConvBlock1dGrouped(i, o, k, 1, p, 1, g, act, rate)
          /\ x_in = NoTensor
          /\ x_arg = NoTensor
          /\ x_len_arg = <<>>
          /\ \E T \in 1..MaxT :
                entry = [x |-> [batch |-> Batch, channels |-> conv.convs[1].in_channels,
                                time |-> T],
                         x_len |-> Vec([b \in 1..Batch |-> IF b = 1 THEN T ELSE 0])]
          /\ x = entry.x
          /\ x_len = entry.x_len
          /\ layer = 0
          /\ convs = <<>>
          /\ result = <<>>
          /\ trace = NoTrace
    /\ x_masked = NoTensor
    /\ y_time = 0
    /\ y_len = <<>>
    /\ x_out = NoTensor
    /\ IdleBuild

\* ChannelShuffle1d.__call__: the reshape (Chainer) or the assert (TensorFlow)
\* fails when the channels do not divide into the groups
ChannelShuffle1dCall ==
    /\ pc = "ChannelShuffle1d"
    /\ IF ChannelsOf(x_in, conv.data_format) % conv.groups = 0
       THEN /\ x_out' = ChannelShuffle1d(port, x_in, conv.groups, conv.data_format)
            /\ pc' = "shuffled"
            /\ raised' = raised
       ELSE /\ x_out' = NoTensor
            /\ pc' = "shuffle_raised"
            /\ raised' = [type |-> IF port = "tf" THEN "AssertionError" ELSE "InvalidType",
                          at |-> IF port = "tf" THEN "assert" ELSE "reshape"]
    /\ UNCHANGED <<port, conv, x_in, x_arg, x_len_arg, x_masked, y_time, y_len>>
    /\ UNCHANGED <<args, net, io>>
    /\ UNCHANGED fwdVars

\* DwsConvBlock1d.__call__
DwsConvBlock1dCall ==
    /\ pc = "DwsConvBlock1d"
    /\ LET r == BlockCall(port, conv, x, x_len)
           ops == Chain(BlockSteps(conv), Part("block", 1), trace.x, trace.fresh)
       IN  /\ convs' = r.calls
           /\ IF r.ok
              THEN /\ x' = r.x /\ x_len' = r.x_len /\ pc' = "block_returned"
                   /\ raised' = raised
                   /\ result' = [x |-> r.x, x_len |-> r.x_len]
                   /\ trace' = [trace EXCEPT !.x = ChainOut(ops, trace.x), !.ops = ops,
                                             !.inputs = <<trace.x>>,
                                             !.fresh = trace.fresh + Len(ops)]
              ELSE /\ x' = x /\ x_len' = x_len /\ pc' = "block_raised"
                   /\ raised' = r.err
                   /\ result' = result
                   /\ trace' = trace
    /\ UNCHANGED <<port, args, net, io, entry, layer>>
    /\ UNCHANGED convVars

NextBlockCall ==
    \/ ChannelShuffle1dCall
    \/ DwsConvBlock1dCall
    \/ MaskConv1dCall

SpecBlock == InitBlock /\ [][NextBlockCall]_vars

(***************************************************************************)
(* Claims about the channel shuffle (checked under SpecBlock).             *)
(***************************************************************************)
Shuffled == pc = "shuffled"

\* C18: for every channel count C and group count g dividing C (n = C/g) the
\* shuffle permutes the channel axis only: output channel j*g + i is input
\* channel i*n + j for 0 <= i < g, 0 <= j < n; the channels are mapped one to
\* one, batch and time are untouched, and with g = 1 nothing moves.
C18_ShuffleIsPermutation ==
    Shuffled =>
        LET fmt == conv.data_format
            g == conv.groups
            chans == ChannelsOf(x_in, fmt)
            n == FloorDiv(chans, g)
            T == TimeDim(x_in, fmt)
            src(c) == CHOOSE ij \in (0..(g - 1)) \X (0..(n - 1)) : ij[2] * g + ij[1] = c
        IN  /\ Len(x_out) = Len(x_in) /\ Dim1(x_out) = Dim1(x_in) /\ Dim2(x_out) = Dim2(x_in)
            /\ \A b \in 1..Len(x_in), tm \in 0..(T - 1) :
                  /\ \A i \in 0..(g - 1), j \in 0..(n - 1) :
                        At(x_out, fmt, b, j * g + i + 1, tm) = At(x_in, fmt, b, i * n + j + 1, tm)
                  /\ {At(x_out, fmt, b, c, tm) : c \in 1..chans}
                        = {At(x_in, fmt, b, c, tm) : c \in 1..chans}
            /\ g = 1 => x_out = x_in

\* six channels in two groups of three, channels last: 0 1 2 3 4 5 -> 0 3 1 4 2 5
C18_Witness ==
    /\ Shuffled /\ port = "tf" /\ conv.data_format = "channels_last" /\ conv.groups = 2
    /\ Dim2(x_in) = 6 /\ Dim1(x_in) = 2
    /\ x_in[1][1] = <<1, 3, 5, 7, 9, 11>>
    /\ x_out[1][1] = <<1, 7, 3, 9, 5, 11>>
    /\ x_out[1][2] = <<2, 8, 4, 10, 6, 12>>

BlockReturned == pc = "block_returned"

\* the pointwise convolution is the last convolution of the block
PointwiseAt(ops) ==
    CHOOSE k \in 1..Len(ops) :
        ops[k].op = "conv" /\ \A m \in (k + 1)..Len(ops) : ops[m].op # "conv"

\* C19: a DwsConvBlock1d whose pointwise convolution has more than one group
\* shuffles the channels directly after the pointwise convolution and before
\* the normalization; with one group it shuffles nothing.
C19_ShuffleAfterPointwise ==
    BlockReturned =>
        LET ops == trace.ops
            pw == PointwiseAt(ops)
            groups == conv.convs[2].groups
        IN  /\ ops[pw].arg = conv.convs[2]
            /\ IF groups > 1
               THEN /\ Len(OpsNamed("shuffle")) = 1
                    /\ ops[pw + 1].op = "shuffle" /\ ops[pw + 1].in = <<ops[pw].out>>
                    /\ ops[pw + 2].op = "bn" /\ ops[pw + 2].in = <<ops[pw + 1].out>>
               ELSE /\ OpsNamed("shuffle") = <<>>
                    /\ ops[pw + 1].op = "bn" /\ ops[pw + 1].in = <<ops[pw].out>>

\* a block of three groups, with activation and dropout
C19_Witness ==
    /\ BlockReturned
    /\ conv.convs[2].groups = 3 /\ conv.convs[2].in_channels = 6 /\ conv.convs[1].ksize = 3
    /\ conv.activate /\ conv.use_dropout
    /\ LET names == OpNames(trace.ops)
       IN  SubSeq(names, Len(names) - 4, Len(names)) = <<"conv", "shuffle", "bn", "relu", "dropout">>

(***************************************************************************)
(* Claims about the zeroed samples (checked under Spec).                   *)
(***************************************************************************)
\* a block of self.features has returned and the next layer is about to be called
AtBoundary == pc = "features" /\ layer >= 1

\* the length threaded with the tensor
ThreadedLen == IF x_len.kind = "tuple" THEN x_len.x_len ELSE x_len

\* no sample of batch element b at a position >= lens[b] is other than zero
ZeroFrom(t, lens, b) == \A q \in t.nz : q[1] = b => q[2] < lens[b]

\* the MaskConv1d call that made the k-th operation of the trace
CallOf(k) == Cardinality({m \in 1..k : trace.ops[m].op = "conv"})

\* the claim as stated: the tensor a layer hands to the next is zero from L' on
C20_ZeroPastLengthAtBoundaries ==
    AtBoundary =>
        \A b \in 1..Batch :
            entry.x_len.v[b] < entry.x.time
                => ZeroFrom(trace.val[trace.x + 1], MaskLens(ThreadedLen), b)

\* C20: for every length below the time dimension, each masked convolution of
\* the stem, of the units and of the final block reads a tensor that its own
\* mask has zeroed from the length threaded with that tensor; the tensor a
\* layer returns is not masked, and the output convolution reads the final
\* block's tensor as it is, with no mask.
C20_MaskedConvolutionsReadZeros ==
    pc \in {"features", "forward_returned"} =>
        \A k \in 1..Len(trace.ops) :
            trace.ops[k].op = "conv" =>
                IF trace.ops[k].arg.use_mask
                THEN /\ k > 1
                     /\ trace.ops[k - 1].op = "mask"
                     /\ trace.ops[k].in = <<trace.ops[k - 1].out>>
                     /\ \A b \in 1..Batch :
                           ZeroFrom(trace.val[trace.ops[k].in[1] + 1],
                                    MaskLens(convs[CallOf(k)].len_in), b)
                ELSE /\ trace.ops[k].by.part = "output"
                     /\ trace.ops[k].in = <<trace.inputs[Len(trace.inputs)]>>

\* the stem on three samples of which two are valid (second batch element):
\* its convolution reads two samples and a zero, and returns two samples, one
\* valid, neither zero
C20_Witness ==
    /\ AtBoundary /\ layer = 1
    /\ entry.x.time = 3 /\ entry.x_len.v[2] = 2
    /\ trace.ops[1].op = "mask" /\ trace.ops[2].op = "conv"
    /\ {q[2] : q \in {r \in trace.val[trace.ops[2].in[1] + 1].nz : r[1] = 2}} = {0, 1}
    /\ x_len.v[2] = 1
    /\ trace.val[trace.x + 1].time = 2
    /\ {q[2] : q \in {r \in trace.val[trace.x + 1].nz : r[1] = 2}} = {0, 1}

(***************************************************************************)
(* Claims about the padding (checked under Spec).                          *)
(***************************************************************************)
ForwardReturned == pc = "forward_returned"

\* the caller's tensor and the logits
CallerTensor == trace.val[1]
Logits == trace.val[trace.x + 1]

\* C21: two forward calls with the same parameters (inference mode) and the
\* same x_len, whose tensors agree at every position below x_len[b] and differ
\* anyhow from x_len[b] on, return the same logits; the lengths returned are
\* computed from x_len alone.
C21_PaddingDoesNotReachLogits ==
    ForwardReturned =>
        /\ CallerTensor.diff = {q \in Positions(entry.x.time) : q[2] >= entry.x_len.v[q[1]]}
        /\ Logits.diff = {}

\* a call with padding in its last batch element, through at least one unit
C21_Witness ==
    /\ ForwardReturned
    /\ entry.x.time = 3 /\ entry.x_len.v[Batch] = 1
    /\ CallerTensor.diff = {<<Batch, 1>>, <<Batch, 2>>}
    /\ Len(net.features) > 2
    /\ Logits.time = 2 /\ Logits.nz # {} /\ Logits.diff = {}

(***************************************************************************)
(* Claims about the ports side by side (checked under SpecConv).           *)
(***************************************************************************)
\* the claim as stated: some dilated layer gets another length in one port than
\* in the other, or than the standard formula gives
C22_PortsDivergeOnDilation ==
    /\ port \in Ports
    /\ \E L \in 0..MaxLen, K \in 1..MaxK, S \in 1..MaxS, P \in 0..MaxP, D \in 2..MaxD :
          LET c == [ksize |-> K, stride |-> S, pad |-> P, dilate |-> D]
          IN  \/ MaskConv1dLen("chainer", L, c) # MaskConv1dLen("tf", L, c)
              \/ ~IsFloorPlusOne(MaskConv1dLen("chainer", L, c), L + 2 * P - D * (K - 1) - 1, S)
              \/ ~IsFloorPlusOne(MaskConv1dLen("tf", L, c), L + 2 * P - D * (K - 1) - 1, S)

\* C22: the two ports apply the dilation in the same way: a masked call with
\* dilation D # 1 returns, in the port that ran, the length the other port
\* computes for the same L, K, S, P, D, and both are the standard
\* floor((L + 2P - D(K-1) - 1)/S) + 1.
C22_PortsAgreeOnDilation ==
    (pc = "returned" /\ conv.use_mask /\ conv.dilate # 1) =>
        \A b \in 1..Batch :
            /\ y_len[b] = MaskConv1dLen("chainer", x_len_arg[b], conv)
            /\ y_len[b] = MaskConv1dLen("tf", x_len_arg[b], conv)
            /\ IsFloorPlusOne(y_len[b],
                              x_len_arg[b] + 2 * conv.pad - conv.dilate * (conv.ksize - 1) - 1,
                              conv.stride)

\* a dilated TensorFlow call where the dilation changes the length: 3 -> 1
C22_Witness ==
    /\ pc = "returned" /\ conv.use_mask /\ port = "tf"
    /\ conv.dilate = 2 /\ conv.ksize = 3 /\ conv.stride = 1 /\ conv.pad = 1
    /\ x_len_arg[1] = 3 /\ y_len[1] = 1

(***************************************************************************)
(* Claims about the lengths through the network (checked under Spec).      *)
(***************************************************************************)
\* the length inside the value threaded
LenPart(lv) == IF lv.kind = "tuple" THEN lv.x_len ELSE lv

\* a k x 1 convolution of a body block, and a 1x1 convolution
IsBodyConv(c) ==
    c.stride = 1 /\ c.dilate = 1 /\ c.ksize % 2 = 1 /\ c.pad = FloorDiv(c.ksize, 2)

IsPointwise(c) == c.ksize = 1 /\ c.stride = 1 /\ c.pad = 0 /\ c.dilate = 1

\* the first convolution of a block is the k x 1 one, the second (depthwise
\* blocks only) the pointwise one
BlockIs(blk, First(_)) ==
    /\ First(blk.convs[1])
    /\ \A i \in 2..Len(blk.convs) : IsPointwise(blk.convs[i])

IsFinalConv1(c) ==
    c.stride = 1 /\ c.dilate = 2 /\ c.pad = FloorDiv(2 * c.ksize, 2) - 1

\* a network with residual units whose bodies are not empty
HasBodies == HasUnits /\ net.repeat >= 1

UnitsAndFinalKeepTime ==
    HasBodies =>
        \A i \in 2..Len(net.features) :
            LET l == net.features[i]
            IN  IF l.cls = "JasperUnit"
                THEN /\ \A j \in 1..Len(l.body) : BlockIs(l.body[j], IsBodyConv)
                     /\ \A j \in 1..Len(l.identity_block) :
                           BlockIs(l.identity_block[j], IsPointwise)
                ELSE /\ BlockIs(l.conv1, IsFinalConv1)
                     /\ BlockIs(l.conv2, IsPointwise)

C23_Step ==
    /\ (HasBodies /\ pc = "features" /\ layer >= 1 /\ pc' = "features") =>
          /\ x'.time = x.time
          /\ LenPart(x_len') = LenPart(x_len)
          /\ \A i \in 1..Len(convs') :
                /\ convs'[i].x.time = x.time
                /\ convs'[i].len_in = LenPart(x_len)
                /\ convs'[i].x_len = LenPart(x_len)
    /\ (HasBodies /\ pc' = "forward_raised") => raised'.at \notin {"stack", "add"}

ReturnedLen(lv, b) == MaskLens(lv)[b]

\* C24: whatever configuration get_jasper built, every batch element that came
\* with valid length L >= 0 gets back floor((L - 1) / 2) + 1: only the stem,
\* with its stride of 2, changes the length.
C24_ReturnedLengthIsHalf ==
    ForwardReturned =>
        /\ result.x_len.kind # "tuple"
        /\ \A b \in 1..Batch :
              IsFloorPlusOne(ReturnedLen(result.x_len, b), entry.x_len.v[b] - 1, 2)

\* C24, as far as it holds: with at least one residual unit
C24_HalfWhenThereAreUnits ==
    (ForwardReturned /\ HasUnits) =>
        /\ result.x_len.kind = "vec"
        /\ \A b \in 1..Batch :
              IsFloorPlusOne(result.x_len.v[b], entry.x_len.v[b] - 1, 2)

C24_Witness ==
    /\ ForwardReturned /\ HasUnits /\ net.use_dr /\ net.use_dw
    /\ entry.x_len.v = <<3, 0>> /\ result.x_len.v = <<2, 0>>

(***************************************************************************)
(* Claims about the block count (checked under Spec).                      *)
(***************************************************************************)
\* the block count of the version string of the call
BlockCount == int(split(args.version, "x")[1])

\* a call of get_jasper with a version that reads as two integers, a known
\* family and no pretrained weights
AcceptedCall ==
    LET fields == split(args.version, "x")
    IN  /\ Len(fields) = 2 /\ \A i \in 1..2 : IsIntLiteral(fields[i])
        /\ KnownModelType(args.model_type)
        /\ ~args.pretrained

UnitCount == Cardinality({i \in 1..Len(net.features) : net.features[i].cls = "JasperUnit"})

\* what is built for m repeats of the five main stages
BuiltWithStages(m) ==
    /\ UnitCount = 5 * m
    /\ Len(net.channels) = 3 + 5 * m
    /\ Len(net.ksizes) = 3 + 5 * m
    /\ Len(net.dropout_rates) = 3 + 5 * m
    /\ Len(net.features) = 2 + 5 * m
    /\ m = 0 => net.features[2].conv1.convs[1].in_channels
                    = net.features[1].convs[Len(net.features[1].convs)].out_channels

\* the claim as stated: 5 * floor(b / 5) units for every integer b
C25_UnitsAreFiveTimesFloor ==
    /\ (AcceptedCall /\ pc # "get_jasper") => pc # "raised"
    /\ (AcceptedCall /\ net # <<>>) => BuiltWithStages(FloorDiv(BlockCount, 5))

\* C25: for every integer block count b of an accepted version string get_jasper
\* raises nothing and builds 5 * max(0, floor(b / 5)) residual units and schedule
\* lists of length 3 + 5 * max(0, floor(b / 5)): b units only for b a multiple of
\* 5 that is not negative, a b in between rounded down, and no unit for b < 5
\* (negative b included), the final block then taking the stem's channels.
C25_UnitsAreFiveTimesFloorOrNone ==
    /\ (AcceptedCall /\ pc # "get_jasper") => pc # "raised"
    /\ (AcceptedCall /\ net # <<>>) =>
          BuiltWithStages(IF BlockCount < 0 THEN 0 ELSE FloorDiv(BlockCount, 5))

\* six blocks give five units
C25_Witness ==
    /\ AcceptedCall /\ pc = "built" /\ BlockCount = 6
    /\ UnitCount = 5 /\ Len(net.channels) = 8

(***************************************************************************)
(* Claims about the dense-residual channels (checked under Spec).          *)
(***************************************************************************)
\* the channels a block of self.features returns
OutChannels(l) ==
    IF l.cls = "JasperUnit" THEN l.identity_block[1].convs[1].out_channels
    ELSE l.convs[Len(l.convs)].out_channels

\* C26: in dense-residual mode residual unit i is built with exactly i identity
\* projections and is handed exactly i accumulated tensors; projection j takes
\* the channels of the j-th accumulated tensor, which are the stem's output
\* channels for j = 1 and the output channels of unit j - 1 otherwise; the body
\* takes the channels of the last accumulated tensor; no projection or body
\* convolution of such a network is refused for its channel count.
C26_DenseChannelsAgree ==
    /\ (AfterUnit /\ TheUnit.use_dr) =>
          LET i == layer - 1
              acc == x_len.y
          IN  /\ Len(TheUnit.identity_block) = i
              /\ x_len.kind = "tuple" /\ Len(acc) = i /\ Len(x_len.y_len) = i
              /\ \A j \in 1..i :
                    /\ TheUnit.identity_block[j].convs[1].in_channels = acc[j].channels
                    /\ acc[j].channels = OutChannels(net.features[j])
              /\ TheUnit.body # <<>> =>
                    TheUnit.body[1].convs[1].in_channels = acc[i].channels
    /\ (pc = "forward_raised" /\ net.use_dr) => raised.at # "convolution"

\* the third unit of a dense-residual Jasper: 256, 256 and 384 channels accumulated
C26_Witness ==
    /\ AfterUnit /\ TheUnit.use_dr /\ layer = 4 /\ args.model_type = "jasper"
    /\ [j \in 1..3 |-> x_len.y[j].channels] = <<256, 256, 384>>
    /\ [j \in 1..3 |-> TheUnit.identity_block[j].convs[1].in_channels] = <<256, 256, 384>>
    /\ TheUnit.body[1].convs[1].in_channels = 384

(***************************************************************************)
(* Claims about the samples a masked convolution returns (SpecConv).       *)
(***************************************************************************)
\* batch element b of the caller's tensor cut to its first L time steps
Truncated(t, fmt, b, L) ==
    <<[ch \in 1..ChanDim(t, fmt) |-> [i \in 1..L |-> At(t, fmt, b, ch, i - 1)]]>>

\* C27: when a masked MaskConv1d call returns, for every batch element whose
\* valid length L is at most the physical length T, the same convolution applied
\* to the input truncated to its first L steps has L' output positions, and at
\* every t < L' the returned sample equals that convolution's sample, whatever
\* kernel size, stride, dilation, padding and data format were chosen.
C27_ValidOutputIgnoresPadding ==
    (pc = "returned" /\ conv.use_mask) =>
        \A b \in 1..Batch :
            x_len_arg[b] <= TimeDim(x_in, conv.data_format) =>
                LET cut == Truncated(x_in, conv.data_format, b, x_len_arg[b])
                IN  /\ y_len[b] <= y_time
                    /\ y_len[b] >= 1 => ConvOutSize(x_len_arg[b], conv) = y_len[b]
                    /\ \A o \in 1..ChanDim(x_out, conv.data_format), t \in 0..(y_len[b] - 1) :
                          At(x_out, conv.data_format, b, o, t) =
                              ConvAt(cut, "channels_first", conv, 1, o, t)

\* kernel 3, stride 1, dilation 1, padding 1 on three steps of which element 2
\* has one valid: its only valid output reads the first sample and two zeros
C27_Witness ==
    /\ pc = "returned" /\ conv.use_mask
    /\ conv.ksize = 3 /\ conv.stride = 1 /\ conv.dilate = 1 /\ conv.pad = 1
    /\ TimeDim(x_in, conv.data_format) = 3 /\ x_len_arg = <<3, 1>>
    /\ y_len = <<3, 1>> /\ y_time = 3
    /\ At(x_in, conv.data_format, 2, 1, 1) # 0
    /\ At(x_out, conv.data_format, 2, 1, 0) =
           Weight(1, 1, 1) * At(x_in, conv.data_format, 2, 1, 0)
             + Weight(1, 2, 1) * At(x_in, conv.data_format, 2, 2, 0)
    /\ At(x_out, conv.data_format, 2, 1, 1) # 0

(***************************************************************************)
(* Claims about the caller's tensor after a MaskConv1d call (SpecConv).    *)
(***************************************************************************)
CallerKeeps(b, ch, tm) ==
    At(x_arg, conv.data_format, b, ch, tm) = At(x_in, conv.data_format, b, ch, tm)

PaddingOf(b) == {tm \in 0..(TimeDim(x_in, conv.data_format) - 1) : tm >= x_len_arg[b]}

\* C28: after a MaskConv1d call returns, the caller's tensor still holds the
\* values it held before the call at every position t >= x_len[b], in both ports
\* and whatever object the caller passed.
C28_CallerTensorUntouched ==
    pc = "returned" =>
        \A b \in 1..Batch, ch \in 1..ChanDim(x_in, conv.data_format) :
            \A tm \in PaddingOf(b) : CallerKeeps(b, ch, tm)

\* what does hold: only a plain array passed to a masked Chainer call is written
C28_OnlyPlainArraysAreOverwritten ==
    (pc = "returned" /\ ~(port = "chainer" /\ conv.x_kind = "ndarray" /\ conv.use_mask)) =>
        x_arg = x_in

\* a TensorFlow call with padding in the caller's tensor has returned
C28_Witness ==
    /\ pc = "returned" /\ port = "tf" /\ conv.use_mask
    /\ PaddingOf(2) = {1, 2}
    /\ x_arg = x_in
    /\ At(x_masked, conv.data_format, 2, 1, 2) = 0
    /\ At(x_arg, conv.data_format, 2, 1, 2) # 0

(***************************************************************************)
(* Claims about the body of a residual unit (checked under Spec).          *)
(***************************************************************************)
RangeOf(f) == {f[i] : i \in DOMAIN f}

BlockIn(blk) == blk.convs[1].in_channels

BlockOut(blk) == blk.convs[Len(blk.convs)].out_channels

\* block k of the body was applied to tensor t, all its steps one after the other
BodyBlockApplied(k, t) ==
    LET ops == OpsBy("body", k)
    IN  /\ OpNames(ops) = OpNames(BlockSteps(TheUnit.body[k]))
        /\ ops[1].in = <<t>>
        /\ \A s \in 2..Len(ops) : ops[s].in = <<ops[s - 1].out>>

BodyBlockOut(k) == IF k = 0 THEN UnitInput ELSE OpsBy("body", k)[Len(OpsBy("body", k))].out

\* C29: the body of every residual unit holds exactly `repeat` blocks, applied
\* one after the other from the unit's input; the first repeat - 1 have the
\* activation and the stage's dropout rate, the last has no activation and
\* dropout rate 0; the first block takes the unit's input channels, every later
\* block the unit's output channels, and every block returns the output channels.
C29_BodyBlocks ==
    AfterUnit =>
        LET n == net.repeat
            stage == layer
            body == TheUnit.body
        IN  /\ Len(body) = n
            /\ \A k \in 1..n :
                  /\ body[k].cls = (IF net.use_dw THEN "DwsConvBlock1d" ELSE "MaskConvBlock1d")
                  /\ body[k].activate = (k < n)
                  /\ body[k].dropout_rate = (IF k < n THEN net.dropout_rates[stage] ELSE 0)
                  /\ body[k].use_dropout = (body[k].dropout_rate # 0)
                  /\ BlockIn(body[k]) = (IF k = 1 THEN net.channels[stage - 1] ELSE net.channels[stage])
                  /\ BlockOut(body[k]) = net.channels[stage]
                  /\ BodyBlockApplied(k, BodyBlockOut(k - 1))
                  /\ ("relu" \in RangeOf(OpNames(OpsBy("body", k)))) = (k < n)
                  /\ ("dropout" \in RangeOf(OpNames(OpsBy("body", k))))
                        = (k < n /\ net.dropout_rates[stage] # 0)
            /\ \A o \in RangeOf(trace.ops) : o.by.part = "body" => o.by.k \in 1..n
            /\ OpsNamed("add")[1].in[1] = BodyBlockOut(n)

\* a Jasper unit of two blocks: the first activated with dropout 2/10, the
\* second bare; and the channel count changes in the first block only
C29_Witness ==
    /\ AfterUnit /\ layer = 3 /\ net.repeat = 2 /\ ~net.use_dw
    /\ args.model_type = "jasper"
    /\ BlockIn(TheUnit.body[1]) = 256 /\ BlockOut(TheUnit.body[1]) = 384
    /\ BlockIn(TheUnit.body[2]) = 384 /\ BlockOut(TheUnit.body[2]) = 384
    /\ OpNames(OpsBy("body", 1)) = <<"mask", "conv", "bn", "relu", "dropout">>
    /\ OpNames(OpsBy("body", 2)) = <<"mask", "conv", "bn">>
    /\ OpsBy("body", 2)[1].in = <<OpsBy("body", 1)[5].out>>

(***************************************************************************)
(* Claims about the two data formats (checked under SpecBlock).            *)
(***************************************************************************)
\* the tensor with its channel and time axes exchanged
SwapChannelsAndTime(t) ==
    [b \in 1..Len(t) |-> [i \in 1..Dim2(t) |-> [j \in 1..Dim1(t) |-> t[b][j][i]]]]

\* tensor t of layout `from` laid out as `to`
InLayout(t, from, to) == IF from = to THEN t ELSE SwapChannelsAndTime(t)

\* the (batch, time) positions where every channel of t is zero
ZeroedPositions(t, fmt) ==
    {q \in Positions(TimeDim(t, fmt)) :
        \A ch \in 1..ChanDim(t, fmt) : At(t, fmt, q[1], ch, q[2]) = 0}

\* C30: a TensorFlow MaskConv1d call given the same tensor in the other layout
\* hands the convolution the transpose of what this call handed it, zeroed at the
\* same (batch, time) positions, and returns the same lengths; a ChannelShuffle1d
\* call of either port, given the same tensor in the layout of any port and
\* format, returns the same tensor in that layout.
C30_DataFormatsAgree ==
    /\ (pc = "returned" /\ port = "tf") =>
          \A other \in Formats("tf") :
              LET fmt == conv.data_format
                  masked == ApplyMask("tf", InLayout(x_in, fmt, other), x_len_arg, other)
              IN  /\ masked = InLayout(x_masked, fmt, other)
                  /\ ZeroedPositions(masked, other) = ZeroedPositions(x_masked, fmt)
                  /\ ZeroedPositions(x_masked, fmt)
                         = {q \in Positions(TimeDim(x_in, fmt)) : q[2] >= x_len_arg[q[1]]}
                  /\ y_len = [b \in 1..Batch |->
                                 MaskConv1dLen("tf", x_len_arg[b],
                                               [conv EXCEPT !.data_format = other])]
    /\ Shuffled =>
          \A p \in Ports : \A other \in Formats(p) :
              ChannelShuffle1d(p, InLayout(x_in, conv.data_format, other), conv.groups, other)
                  = InLayout(x_out, conv.data_format, other)

\* a channels-last TensorFlow call whose second batch element has one valid step
\* of three: its two later steps are zeroed in every channel, in both layouts
C30_Witness ==
    /\ pc = "returned" /\ port = "tf" /\ conv.data_format = "channels_last"
    /\ Dim1(x_in) = 3 /\ Dim2(x_in) = Chans /\ x_len_arg = <<3, 1>>
    /\ ZeroedPositions(x_masked, "channels_last") = {<<2, 1>>, <<2, 2>>}
    /\ x_masked[2] = <<x_in[2][1], <<0, 0>>, <<0, 0>>>>
    /\ ApplyMask("tf", SwapChannelsAndTime(x_in), x_len_arg, "channels_first")[2]
           = <<<<x_in[2][1][1], 0, 0>>, <<x_in[2][1][2], 0, 0>>>>

====
